---- MODULE Spec2Model ----
(***************************************************************************)
(* RealTimeMonitoringService (agents/agent_service/lib/monitoring_service) *)
(* as a state machine.                                                     *)
(*                                                                         *)
(* Time is the wall clock time.time() in whole milliseconds.  Metric       *)
(* values are floats in the source; here they are integers counted in      *)
(* hundredths (Unit = 1.00), and the inputs drawn are values on which the  *)
(* source's double arithmetic agrees with exact arithmetic.                *)
(*                                                                         *)
(* The service runs on one asyncio event loop.  ready is the loop's FIFO   *)
(* queue of scheduled task steps: the detached tasks made by               *)
(* asyncio.create_task and the wake-ups of the two heartbeat loops.        *)
(* Foreground calls come from request handlers, which are steps of the     *)
(* same loop that are not modelled further: they may run between any two   *)
(* modelled steps.                                                         *)
(***************************************************************************)
EXTENDS Integers, Sequences, FiniteSets, TLC

\* ---------------------------------------------------------------- bounds
\* deque(maxlen=10000) of the source, scaled down
BufferMaxLen == 6
\* deque(maxlen=60) of the minute window, scaled down
MinuteMaxLen == 2
\* record_metric calls in one behaviour of SpecBuffer
MaxRecords == 7
\* record_metric calls in one behaviour of SpecAlerts
MaxAlertRecords == 3
\* record_metric calls in one behaviour of SpecHeartbeat
MaxHeartbeatRecords == 5
\* clock advances in one behaviour of SpecHeartbeat
MaxHeartbeatClock == 1
\* record_metric calls in one behaviour of SpecResponse
MaxResponseRecords == 2
\* record_metric calls in one behaviour of SpecProfiler
MaxProfilerRecords == 4
\* clock advances in one behaviour of SpecProfiler
MaxProfilerClock == 1
\* record_metric calls in one behaviour of SpecExecution
MaxExecutionRecords == 5
\* clock advances in one behaviour of SpecExecution
MaxExecutionClock == 2
\* clock advances in one behaviour
MaxClockSteps == 3
\* record_metric calls in one behaviour of SpecPush
MaxPushRecords == 2
\* clock advances in one behaviour of SpecBroadcast
MaxBroadcastClock == 1
\* error_rate records in one behaviour of SpecHealth
MaxHealthErrors == 6
\* clock advances in one behaviour of SpecHealth
MaxHealthClock == 1
MaxAlertQueryRecords == 2
MaxAlertQueryClock == 2
\* start_monitoring calls that create tasks in one behaviour of SpecForeground
MaxForegroundStarts == 1
\* start_monitoring calls that create tasks in one behaviour of SpecLifecycle
MaxStarts == 2
\* record_metric calls in one behaviour of SpecLifecycle
MaxLifecycleRecords == 1
\* clock advances in one behaviour of SpecLifecycle
MaxLifecycleClock == 1
\* record_metric calls in one behaviour of SpecForeground
MaxForegroundRecords == 5
\* record_metric calls in one behaviour of SpecIngest
MaxIngestRecords == 7
\* clock advances in one behaviour of SpecIngest
MaxIngestClock == 1
\* add_request calls that enqueue in one behaviour of SpecQueue
MaxRequests == 3
\* clock advances in one behaviour of SpecQueue
MaxQueueClock == 2
\* add_request calls that enqueue in one behaviour of SpecQueueStart
MaxStartRequests == 2
\* clock advances in one behaviour of SpecQueueStart
MaxStartClock == 1
\* add_request calls that enqueue in one behaviour of SpecRate
MaxRateRequests == 11
\* clock advances in one behaviour of SpecRate
MaxRateClock == 1
\* clock advances in one behaviour of SpecFaults
MaxFaultClock == 2
\* record_metric calls in one behaviour of SpecTick
MaxTickRecords == 5
\* clock advances in one behaviour of SpecTick
MaxTickClock == 1
\* record_metric calls in one behaviour of SpecAggregation
MaxAggregationRecords == 2
\* clock advances in one behaviour of SpecAggregation
MaxAggregationClock == 2
\* record_metric calls in one behaviour of SpecSweep
MaxSweepRecords == 4
\* clock advances in one behaviour of SpecSweep
MaxSweepClock == 2
\* the latest time, in ms, a behaviour of SpecSweep reaches
MaxSweepTime == 1300000000
\* sinks one iteration over a modified subscriber set yields at most
MaxYields == 3
\* the longest execution, in ms, that SpecProfiler ends: its duration in
\* hundredths stays within the model checker's integers
MaxExecutionMs == 21000000

\* ------------------------------------------------------------- constants
Unit == 100
None == -1
SleepMonitoring == 1000
SleepCleanup == 300000
RecentWindow == 60000
MinuteLen == 60000
BottleneckMs == 5000
ProfileRetention == 86400000
AlertRetention == 604800000
PatternSamples == 5
RecentAlerts == 300000
HealthWindow == 300000
DegradedErrors == 5
LoadExecutions == 50
ActiveAlertAge == 3600000

\* alert_thresholds, values in hundredths
alert_thresholds ==
  [ response_time_ms  |-> [warning |-> 2000 * Unit, critical |-> 5000 * Unit],
    error_rate        |-> [warning |-> 5,           critical |-> 10],
    memory_usage_mb   |-> [warning |-> 512 * Unit,  critical |-> 1024 * Unit],
    cpu_usage_percent |-> [warning |-> 80 * Unit,   critical |-> 95 * Unit] ]

ThresholdNames == DOMAIN alert_thresholds

VARIABLES
  now,                    \* time.time(), ms
  metrics_buffer,         \* deque of Metric
  alerts,                 \* Dict[str, Alert], keyed by alert id
  active_executions,      \* Dict[str, Dict]
  performance_profiles,   \* Dict[str, PerformanceProfile]
  minute_metrics,         \* Dict[str, deque] of window points
  hour_metrics,
  day_metrics,
  websocket_connections,  \* Set of sinks
  running,                \* _running
  monitoring_task,        \* _monitoring_task: a task id or None
  cleanup_task,           \* _cleanup_task: a task id or None
  tasks,                  \* the heartbeat tasks created so far, by task id
  ready,                  \* the event loop's FIFO queue of task steps
  recorded,               \* history: every Metric ever recorded, in order
  alertLog,               \* history: every Alert ever created, in order
  purged,                 \* history: execution ids whose profile a sweep removed
  noops,                  \* history: the last profiler call that returned at the unknown-id guard
  response,               \* history: what the last query returned
  overflowed,             \* history: names whose full minute window was given a point
  raised,                 \* history: the exceptions foreground calls raised to their callers
  clockSteps,             \* history: number of clock advances
  queue,                  \* RequestQueueService.queue: asyncio.Queue of request_data
  active_requests,        \* RequestQueueService.active_requests
  request_history,        \* RequestQueueService.request_history: times of successful requests
  is_processing,          \* RequestQueueService.is_processing
  processing_requests,    \* RequestQueueService.processing_requests: set of base keys
  results,                \* RequestQueueService._results, keyed by request id
  procs,                  \* the _process_queue tasks created so far
  handlers,               \* the _handle_request tasks created so far
  accepted,               \* history: every request_data put into the queue, in order
  handled                 \* history: the times at which the loop handed a request to a handler

serviceVars == <<metrics_buffer, alerts, active_executions, performance_profiles,
                 minute_metrics, hour_metrics, day_metrics, websocket_connections>>
loopVars    == <<running, monitoring_task, cleanup_task, tasks>>
histVars    == <<recorded, alertLog, purged, noops, response, overflowed, raised, clockSteps>>
queueVars   == <<queue, active_requests, request_history, is_processing,
                 processing_requests, results, procs, handlers, accepted, handled>>
vars        == <<now, serviceVars, loopVars, ready, histVars, queueVars>>

\* ---------------------------------------------------------------- helpers
RECURSIVE SeqSum(_)
SeqSum(s) == IF s = <<>> THEN 0 ELSE Head(s) + SeqSum(Tail(s))

RECURSIVE SeqMin(_)
SeqMin(s) == IF Len(s) = 1 THEN s[1]
             ELSE LET r == SeqMin(Tail(s)) IN IF Head(s) < r THEN Head(s) ELSE r

RECURSIVE SeqMax(_)
SeqMax(s) == IF Len(s) = 1 THEN s[1]
             ELSE LET r == SeqMax(Tail(s)) IN IF Head(s) > r THEN Head(s) ELSE r

Values(ms) == [i \in 1..Len(ms) |-> ms[i].value]

\* s[-k:] of Python
LastN(s, k) == IF Len(s) <= k THEN s ELSE SubSeq(s, Len(s) - k + 1, Len(s))

\* dict[key] = value
DictSet(d, key, value) == (key :> value) @@ d

\* del dict[key] for every key of a set
DictDel(d, keys) == [k \in (DOMAIN d) \ keys |-> d[k]]

\* -------------------------------------------------------------- data model
Metric(name, value, t, tags, metric_type) ==
  [name |-> name, value |-> value, timestamp |-> t, tags |-> tags,
   metric_type |-> metric_type]

Alert(id, level, title, message, t, metadata) ==
  [id |-> id, level |-> level, title |-> title, message |-> message,
   timestamp |-> t, resolved |-> FALSE, metadata |-> metadata]

PerformanceProfile(execution_id, t) ==
  [execution_id |-> execution_id, start_time |-> t, end_time |-> None,
   duration_ms |-> None, cpu_usage |-> 0, memory_usage_mb |-> 0,
   network_io_kb |-> 0, disk_io_kb |-> 0, function_calls |-> <<>>,
   bottlenecks |-> <<>>]

\* collections.deque(maxlen=n).append(x): a full deque drops its oldest entry
deque_append_keep_oldest(d, x, maxlen) ==
  IF Len(d) >= maxlen THEN d ELSE Append(d, x)

deque_append_unbounded(d, x, maxlen) == Append(d, x)

deque_append(d, x, maxlen) ==
  IF Len(d) >= maxlen THEN Append(Tail(d), x) ELSE Append(d, x)

RECURSIVE deque_extend(_, _, _)
deque_extend(d, xs, maxlen) ==
  IF xs = <<>> THEN d
  ELSE deque_extend(deque_append(d, Head(xs), maxlen), Tail(xs), maxlen)

\* ------------------------------------------------------------ task handles
\* asyncio.create_task(self._check_metric_thresholds(metric)); n is the
\* metric's position in the history, ticks counts the heartbeat ticks that
\* ran while the task was waiting (both are history, not program state)
CheckTask(m, n) == [kind |-> "check", metric |-> m, n |-> n, ticks |-> 0]

\* asyncio.create_task(self._create_alert(WARNING, "Slow Execution Detected", ...))
SlowAlertTask(execution_id, duration_ms) ==
  [kind |-> "slow_alert", execution_id |-> execution_id,
   duration_ms |-> duration_ms, ticks |-> 0]

\* the next step of a heartbeat task
StepTask(id) == [kind |-> "step", task |-> id, ticks |-> 0]

CheckTasks(ms, first) == [i \in 1..Len(ms) |-> CheckTask(ms[i], first + i - 1)]

\* ------------------------------------------------------------------- Init
Init ==
  /\ now = 0
  /\ metrics_buffer = <<>>
  /\ alerts = <<>>
  /\ active_executions = <<>>
  /\ performance_profiles = <<>>
  /\ minute_metrics = <<>>
  /\ hour_metrics = <<>>
  /\ day_metrics = <<>>
  /\ websocket_connections = {}
  /\ running = FALSE
  /\ monitoring_task = None
  /\ cleanup_task = None
  /\ tasks = <<>>
  /\ ready = <<>>
  /\ recorded = <<>>
  /\ alertLog = <<>>
  /\ purged = {}
  /\ noops = {}
  /\ response = [op |-> "none"]
  /\ overflowed = {}
  /\ raised = {}
  /\ clockSteps = 0
  /\ queue = <<>>
  /\ active_requests = 0
  /\ request_history = <<>>
  /\ is_processing = FALSE
  /\ processing_requests = {}
  /\ results = <<>>
  /\ procs = <<>>
  /\ handlers = <<>>
  /\ accepted = <<>>
  /\ handled = <<>>

\* ------------------------------------------------------------------ clock
AdvanceTime(d) ==
  /\ now' = now + d
  /\ clockSteps' = clockSteps + 1
  /\ UNCHANGED <<serviceVars, loopVars, ready, recorded, alertLog, purged, noops, response, overflowed, raised, queueVars>>

\* ---------------------------------------------------------- MetricRecorder
\* the effect of consecutive record_metric calls of one handler on the
\* buffer and on the loop's queue; more are the other tasks the handler
\* creates after them
record_metrics_no_check(ms, more) ==
  /\ metrics_buffer' = deque_extend(metrics_buffer, ms, BufferMaxLen)
  /\ ready' = ready \o more
  /\ recorded' = recorded \o ms

record_metrics(ms, more) ==
  /\ metrics_buffer' = deque_extend(metrics_buffer, ms, BufferMaxLen)
  /\ ready' = ready \o CheckTasks(ms, Len(recorded) + 1) \o more
  /\ recorded' = recorded \o ms

\* record_metric(name, value, tags, metric_type), a foreground call
record_metric(name, value, tags, metric_type) ==
  /\ record_metrics(<<Metric(name, value, now, tags, metric_type)>>, <<>>)
  /\ UNCHANGED <<now, alerts, active_executions, performance_profiles,
                 minute_metrics, hour_metrics, day_metrics,
                 websocket_connections, loopVars, alertLog, purged, noops, response, overflowed, raised, queueVars, clockSteps>>

\* ------------------------------------------------------------ AlertManager
\* alert_id = f"alert-{int(time.time() * 1000)}": the clock in whole ms
alert_id(t) == t

\* _broadcast_alert: json.dumps(alert_data) raises TypeError for every sink,
\* because asdict(alert) keeps level as an AlertLevel member; the bare except
\* takes it as a failed delivery, so every sink is discarded and none is sent to
broadcast_alert(sinks) == {}

\* the subscriber set is modified while iterations over it are suspended in
\* a delivery: what such an iteration yields afterwards is not defined by
\* the language
Disturb(ts) ==
  [i \in DOMAIN ts |->
     IF ts[i].pc = "sending" THEN [ts[i] EXCEPT !.it.mutated = TRUE] ELSE ts[i]]

\* an alert push discards every sink (see broadcast_alert)
alert_push_disturbs(ts) == IF websocket_connections # {} THEN Disturb(ts) ELSE ts

\* a heartbeat tick that ran is seen by every step still waiting in the queue
Ticked(q) == [i \in 1..Len(q) |-> [q[i] EXCEPT !.ticks = @ + 1]]

\* the sinks whose send() an alert push calls: none, json.dumps raises first
alert_push_sent(sinks) == {}

\* _create_alert, up to its return (it never suspends: see broadcast_alert);
\* cause is the history position of the metric that led to it, or 0; the
\* history also keeps _running of that moment
create_alert(level, title, message, metadata, cause) ==
  LET a == Alert(alert_id(now), level, title, message, now, metadata) IN
  /\ alerts' = DictSet(alerts, a.id, a)
  /\ websocket_connections' = broadcast_alert(websocket_connections)
  /\ alertLog' = Append(alertLog, [alert |-> a, cause |-> cause, running |-> running])

\* the branch _check_metric_thresholds takes
threshold_level_strict(name, value) ==
  IF name \notin ThresholdNames THEN "none"
  ELSE IF value > alert_thresholds[name].critical THEN "critical"
  ELSE IF value > alert_thresholds[name].warning THEN "warning"
  ELSE "none"

threshold_level(name, value) ==
  IF name \notin ThresholdNames THEN "none"
  ELSE IF value >= alert_thresholds[name].critical THEN "critical"
  ELSE IF value >= alert_thresholds[name].warning THEN "warning"
  ELSE "none"

\* the detached task of record_metric runs: _check_metric_thresholds(metric)
check_metric_thresholds ==
  /\ ready # <<>>
  /\ Head(ready).kind = "check"
  /\ LET h == Head(ready)
         m == h.metric
         level == threshold_level(m.name, m.value)
     IN  /\ ready' = Tail(ready)
         /\ IF level = "critical"
            THEN create_alert("critical", [text |-> "Critical", name |-> m.name],
                     [text |-> "is critically high", name |-> m.name, value |-> m.value],
                     [metric |-> m], h.n)
            ELSE IF level = "warning"
            THEN create_alert("warning", [text |-> "High", name |-> m.name],
                     [text |-> "is above warning threshold", name |-> m.name, value |-> m.value],
                     [metric |-> m], h.n)
            ELSE UNCHANGED <<alerts, websocket_connections, alertLog>>
         /\ tasks' = IF level = "none" THEN tasks ELSE alert_push_disturbs(tasks)
  /\ UNCHANGED <<now, metrics_buffer, active_executions, performance_profiles,
                 minute_metrics, hour_metrics, day_metrics, running,
                 monitoring_task, cleanup_task, recorded, purged, noops, response, overflowed, raised, queueVars, clockSteps>>

\* the detached task of end_execution_tracking runs: _create_alert(WARNING, ...)
slow_execution_alert ==
  /\ ready # <<>>
  /\ Head(ready).kind = "slow_alert"
  /\ LET h == Head(ready)
     IN  /\ ready' = Tail(ready)
         /\ create_alert("warning", [text |-> "Slow Execution Detected"],
                [text |-> "took", execution_id |-> h.execution_id,
                 duration_ms |-> h.duration_ms],
                [execution_id |-> h.execution_id, duration_ms |-> h.duration_ms], 0)
  /\ tasks' = alert_push_disturbs(tasks)
  /\ UNCHANGED <<now, metrics_buffer, active_executions, performance_profiles,
                 minute_metrics, hour_metrics, day_metrics, running,
                 monitoring_task, cleanup_task, recorded, purged, noops, response, overflowed, raised, queueVars, clockSteps>>

\* --------------------------------------------------------- ExecutionProfiler
RunningCount(ae) == Cardinality({e \in DOMAIN ae : ae[e].status = "running"})

\* the early return of end_execution_tracking ("if execution_id not in
\* self.performance_profiles: ... return") and the skipped body of
\* record_function_call: nothing of the service changes
\* an exception leaves a foreground call before the call has changed anything
raise(op, error) ==
  /\ raised' = raised \cup {[op |-> op, error |-> error]}
  /\ UNCHANGED <<now, serviceVars, loopVars, ready, recorded, alertLog, purged, noops,
                 response, overflowed, clockSteps, queueVars>>

\* "if execution_id not in self.performance_profiles: ... return" and
\* "if execution_id in self.performance_profiles:"
profile_known_always(execution_id) == TRUE

profile_known(execution_id) == execution_id \in DOMAIN performance_profiles

unknown_execution_marks_ended(op, execution_id) ==
  /\ noops' = {[op |-> op, execution_id |-> execution_id,
                purged |-> execution_id \in purged]}
  /\ active_executions' =
       IF execution_id \in DOMAIN active_executions
       THEN [active_executions EXCEPT ![execution_id].status = "completed"]
       ELSE active_executions
  /\ UNCHANGED <<now, metrics_buffer, alerts, performance_profiles, minute_metrics,
                 hour_metrics, day_metrics, websocket_connections, loopVars, ready,
                 recorded, alertLog, purged, response, overflowed, raised, queueVars, clockSteps>>

unknown_execution(op, execution_id) ==
  /\ noops' = {[op |-> op, execution_id |-> execution_id,
                purged |-> execution_id \in purged]}
  /\ UNCHANGED <<now, serviceVars, loopVars, ready, recorded, alertLog, purged,
                 response, overflowed, raised, queueVars, clockSteps>>

\* start_execution_tracking(execution_id, metadata)
start_execution_tracking(execution_id) ==
  /\ performance_profiles' =
       DictSet(performance_profiles, execution_id, PerformanceProfile(execution_id, now))
  /\ active_executions' =
       DictSet(active_executions, execution_id,
               [start_time |-> now, metadata |-> {}, status |-> "running"])
  /\ record_metrics(
       <<Metric("active_executions",
                Cardinality(DOMAIN active_executions \cup {execution_id}) * Unit,
                now, {<<"type", "execution_start">>}, "gauge")>>, <<>>)
  /\ UNCHANGED <<now, alerts, minute_metrics, hour_metrics, day_metrics,
                 websocket_connections, loopVars, alertLog, purged, noops, response, overflowed, raised, queueVars, clockSteps>>

\* "if profile.duration_ms > 5000:" of end_execution_tracking
is_bottleneck_at_threshold(duration_ms) == duration_ms >= BottleneckMs

is_bottleneck(duration_ms) == duration_ms > BottleneckMs

\* end_execution_tracking(execution_id, status, error); error is None or a string
end_execution_tracking(execution_id, status, error) ==
  IF ~profile_known(execution_id)
  THEN unknown_execution("end_execution_tracking", execution_id)
  ELSE IF execution_id \notin DOMAIN performance_profiles
  THEN raise("end_execution_tracking", "KeyError")
  ELSE
    LET profile == performance_profiles[execution_id]
        duration_ms == now - profile.start_time
        slow == is_bottleneck(duration_ms)
        ended == [profile EXCEPT !.end_time = now, !.duration_ms = duration_ms]
        ae == IF execution_id \in DOMAIN active_executions
              THEN DictSet(active_executions, execution_id,
                     (IF error # "None" THEN ("error" :> error) ELSE <<>>)
                       @@ ("status" :> status) @@ ("end_time" :> now)
                       @@ active_executions[execution_id])
              ELSE active_executions
    IN  /\ performance_profiles' =
             DictSet(performance_profiles, execution_id,
                     IF slow
                     THEN [ended EXCEPT !.bottlenecks = Append(@, "slow_execution")]
                     ELSE ended)
        /\ active_executions' = ae
        /\ record_metrics(
             << Metric("execution_duration_ms", duration_ms * Unit, now,
                       {<<"execution_id", execution_id>>, <<"status", status>>}, "timer"),
                Metric("active_executions", RunningCount(ae) * Unit, now,
                       {<<"type", "execution_end">>}, "gauge") >>,
             IF slow THEN <<SlowAlertTask(execution_id, duration_ms)>> ELSE <<>>)
        /\ UNCHANGED <<now, alerts, minute_metrics, hour_metrics, day_metrics,
                       websocket_connections, loopVars, alertLog, purged, noops, response, overflowed, raised, queueVars, clockSteps>>

\* record_function_call(execution_id, function_name, duration_ms, success)
record_function_call(execution_id, function_name, duration_ms, success) ==
  IF ~profile_known(execution_id)
  THEN unknown_execution("record_function_call", execution_id)
  ELSE IF execution_id \notin DOMAIN performance_profiles
  THEN raise("record_function_call", "KeyError")
  ELSE
    /\ performance_profiles' =
         [performance_profiles EXCEPT ![execution_id].function_calls =
            Append(@, [function |-> function_name, duration_ms |-> duration_ms,
                       timestamp |-> now, success |-> success])]
    /\ record_metrics(
         <<Metric("function_duration_ms", duration_ms * Unit, now,
                  {<<"function", function_name>>, <<"execution_id", execution_id>>,
                   <<"success", IF success THEN "True" ELSE "False">>}, "timer")>>, <<>>)
    /\ UNCHANGED <<now, alerts, active_executions, minute_metrics, hour_metrics,
                   day_metrics, websocket_connections, loopVars, alertLog, purged, noops, response, overflowed, raised, queueVars,
                   clockSteps>>

\* consecutive start_execution_tracking calls of one handler, for the new
\* execution ids ids[1], ids[2], ...
start_executions(ids) ==
  LET new(i) == {ids[j] : j \in 1..i} IN
  /\ performance_profiles' =
       [e \in DOMAIN performance_profiles \cup new(Len(ids)) |->
          IF e \in new(Len(ids)) THEN PerformanceProfile(e, now)
          ELSE performance_profiles[e]]
  /\ active_executions' =
       [e \in DOMAIN active_executions \cup new(Len(ids)) |->
          IF e \in new(Len(ids))
          THEN [start_time |-> now, metadata |-> {}, status |-> "running"]
          ELSE active_executions[e]]
  /\ record_metrics(
       [i \in 1..Len(ids) |->
          Metric("active_executions",
                 Cardinality(DOMAIN active_executions \cup new(i)) * Unit,
                 now, {<<"type", "execution_start">>}, "gauge")], <<>>)
  /\ UNCHANGED <<now, alerts, minute_metrics, hour_metrics, day_metrics,
                 websocket_connections, loopVars, alertLog, purged, noops, response, overflowed, raised, queueVars,
                 clockSteps>>

\* ------------------------------------------------------------------ queries
\* get_system_health: the indicators
health_recent_metrics ==
  SelectSeq(metrics_buffer, LAMBDA m : now - m.timestamp < HealthWindow)

health_recent_errors ==
  Len(SelectSeq(health_recent_metrics, LAMBDA m : m.name = "error_rate" /\ m.value > 0))

health_critical_alerts ==
  Cardinality({a \in DOMAIN alerts : alerts[a].level = "critical" /\ ~alerts[a].resolved})

\* get_system_health: the status
health_status_inclusive(critical_alerts, recent_errors, executions) ==
  IF critical_alerts > 0 THEN "critical"
  ELSE IF recent_errors >= DegradedErrors THEN "degraded"
  ELSE IF executions >= LoadExecutions THEN "under_load"
  ELSE "healthy"

health_status(critical_alerts, recent_errors, executions) ==
  IF critical_alerts > 0 THEN "critical"
  ELSE IF recent_errors > DegradedErrors THEN "degraded"
  ELSE IF executions > LoadExecutions THEN "under_load"
  ELSE "healthy"

get_system_health ==
  [status |-> health_status(health_critical_alerts, health_recent_errors,
                            RunningCount(active_executions)),
   timestamp |-> now,
   active_executions |-> RunningCount(active_executions),
   recent_errors |-> health_recent_errors,
   critical_alerts |-> health_critical_alerts,
   websocket_connections |-> Cardinality(websocket_connections),
   metrics_buffer_size |-> Len(metrics_buffer),
   uptime_seconds |-> 3600,
   performance_profiles |-> Cardinality(DOMAIN performance_profiles)]

\* the handler of GET /monitoring/health
get_system_health_call ==
  /\ response' = [op |-> "get_system_health", result |-> get_system_health]
  /\ UNCHANGED <<now, serviceVars, loopVars, ready, recorded, alertLog, purged, noops,
                 overflowed, raised, queueVars, clockSteps>>

\* the filter of get_active_alerts of main.py
is_active_alert_any_age(alert) == ~alert.resolved

is_active_alert(alert) == ~alert.resolved /\ now - alert.timestamp < ActiveAlertAge

\* the handler of GET /monitoring/alerts; the alerts are listed in the alert
\* table's order, which is left out here
get_active_alerts ==
  LET active == {alerts[a] : a \in {b \in DOMAIN alerts : is_active_alert(alerts[b])}}
  IN  [alerts |-> active, count |-> Cardinality(active), timestamp |-> now]

get_active_alerts_call ==
  /\ response' = [op |-> "get_active_alerts", result |-> get_active_alerts]
  /\ UNCHANGED <<now, serviceVars, loopVars, ready, recorded, alertLog, purged, noops,
                 overflowed, raised, queueVars, clockSteps>>

\* --------------------------------------------------------- heartbeat tasks
\* the iteration "for websocket in self.websocket_connections" of one
\* _broadcast_updates call: none has begun
NoIteration == [outcome |-> "none"]

LoopTask(loop) == [loop |-> loop, pc |-> "created", wake |-> None, it |-> NoIteration]

SleepOf(loop) == IF loop = "monitoring" THEN SleepMonitoring ELSE SleepCleanup

\* "while self._running:" followed by "await asyncio.sleep(...)", or the
\* loop's end
LoopAgainIn_exits(ts, id) == [ts EXCEPT ![id].pc = "done", ![id].wake = None]

LoopAgainIn(ts, id) ==
  IF running
  THEN [ts EXCEPT ![id].pc = "sleeping", ![id].wake = now + SleepOf(ts[id].loop)]
  ELSE [ts EXCEPT ![id].pc = "done", ![id].wake = None]

LoopAgain(id) == LoopAgainIn(tasks, id)

\* start_monitoring()
start_monitoring ==
  IF running
  THEN UNCHANGED vars
  ELSE
    /\ running' = TRUE
    /\ tasks' = tasks \o <<LoopTask("monitoring"), LoopTask("cleanup")>>
    /\ monitoring_task' = Len(tasks) + 1
    /\ cleanup_task' = Len(tasks) + 2
    /\ ready' = ready \o <<StepTask(Len(tasks) + 1), StepTask(Len(tasks) + 2)>>
    /\ UNCHANGED <<now, serviceVars, histVars, queueVars>>

\* the first step of a heartbeat task: up to its first sleep
LoopEnter ==
  /\ ready # <<>>
  /\ Head(ready).kind = "step"
  /\ tasks[Head(ready).task].pc = "created"
  /\ tasks' = LoopAgain(Head(ready).task)
  /\ ready' = Tail(ready)
  /\ UNCHANGED <<now, serviceVars, running, monitoring_task, cleanup_task, histVars, queueVars>>

\* Task.cancel(): a finished task is left alone; a task suspended in its
\* sleep, or whose next step is already scheduled, gets CancelledError thrown
\* in at that step; the send a task is suspended in raises CancelledError
Cancel(ts, id) ==
  IF ts[id].pc \in {"created", "sleeping", "woken"}
  THEN [ts EXCEPT ![id].pc = "cancelling", ![id].wake = None]
  ELSE IF ts[id].pc = "sending"
  THEN [ts EXCEPT ![id].it.cancel = TRUE]
  ELSE ts

\* the steps the loop schedules for the cancelled sleeps
CancelSteps(ids) ==
  SelectSeq(ids, LAMBDA id : id # None /\ tasks[id].pc = "sleeping")

StopTasks == SelectSeq(<<monitoring_task, cleanup_task>>, LAMBDA id : id # None)

\* stop_monitoring() without the two cancel() calls
stop_monitoring_no_cancel ==
  /\ running' = FALSE
  /\ UNCHANGED <<now, serviceVars, monitoring_task, cleanup_task, tasks, ready, histVars, queueVars>>

\* stop_monitoring()
stop_monitoring ==
  /\ running' = FALSE
  /\ tasks' = IF Len(StopTasks) = 2
              THEN Cancel(Cancel(tasks, StopTasks[1]), StopTasks[2])
              ELSE tasks
  /\ ready' = ready \o [i \in 1..Len(CancelSteps(StopTasks)) |->
                          StepTask(CancelSteps(StopTasks)[i])]
  /\ UNCHANGED <<now, serviceVars, monitoring_task, cleanup_task, histVars, queueVars>>

\* the step of a cancelled heartbeat task: CancelledError is raised at its
\* first statement or at its "await asyncio.sleep(...)"; it is no Exception,
\* so the loop's "except Exception" lets it through and the task ends
LoopCancelled ==
  /\ ready # <<>>
  /\ Head(ready).kind = "step"
  /\ tasks[Head(ready).task].pc = "cancelling"
  /\ tasks' = [tasks EXCEPT ![Head(ready).task].pc = "cancelled"]
  /\ ready' = Tail(ready)
  /\ UNCHANGED <<now, serviceVars, running, monitoring_task, cleanup_task, histVars, queueVars>>

\* the sleep of heartbeat task id is over: the loop schedules the task's next step
TimerFire(id) ==
  /\ tasks[id].pc = "sleeping"
  /\ now >= tasks[id].wake
  /\ tasks' = [tasks EXCEPT ![id].pc = "woken", ![id].wake = None]
  /\ ready' = Append(ready, StepTask(id))
  /\ UNCHANGED <<now, serviceVars, running, monitoring_task, cleanup_task, histVars, queueVars>>

\* ------------------------------------------------- fast heartbeat: one tick
\* recent_metrics of _monitoring_loop
recent_metrics == SelectSeq(metrics_buffer, LAMBDA m : now - m.timestamp < RecentWindow)

\* _process_alerts: the samples the error-rate check averages
error_metrics(recent) == SelectSeq(recent, LAMBDA m : m.name = "error_rate")

recent_errors(recent) == Values(LastN(error_metrics(recent), PatternSamples))

\* avg_error_rate > 0.1, with avg_error_rate = sum(recent_errors) / len(recent_errors)
error_rate_spike_any_count(recent) ==
  /\ Len(error_metrics(recent)) >= 1
  /\ SeqSum(recent_errors(recent)) * 10 > Unit * Len(recent_errors(recent))

error_rate_spike(recent) ==
  /\ Len(error_metrics(recent)) >= PatternSamples
  /\ SeqSum(recent_errors(recent)) * 10 > Unit * Len(recent_errors(recent))

\* _update_aggregations: the new minute windows
MinuteValues_last_minute(name) ==
  Values(SelectSeq(metrics_buffer,
                   LAMBDA m : m.name = name /\ now - m.timestamp < RecentWindow))

MinuteValues(name) ==
  Values(SelectSeq(metrics_buffer,
                   LAMBDA m : m.name = name /\ m.timestamp \div MinuteLen = now \div MinuteLen))

MinuteNames ==
  {metrics_buffer[i].name : i \in {j \in 1..Len(metrics_buffer) :
      metrics_buffer[j].timestamp \div MinuteLen = now \div MinuteLen}}

WindowPoint_count_of_buffer(values) ==
  [timestamp |-> (now \div MinuteLen) * MinuteLen,
   avg |-> <<SeqSum(values), Len(values)>>,
   min |-> SeqMin(values), max |-> SeqMax(values), count |-> Len(metrics_buffer)]

WindowPoint(values) ==
  [timestamp |-> (now \div MinuteLen) * MinuteLen,
   avg |-> <<SeqSum(values), Len(values)>>,
   min |-> SeqMin(values), max |-> SeqMax(values), count |-> Len(values)]

update_aggregations_not_yet == minute_metrics

update_aggregations ==
  [name \in (DOMAIN minute_metrics) \cup MinuteNames |->
     IF name \in MinuteNames
     THEN deque_append(IF name \in DOMAIN minute_metrics THEN minute_metrics[name] ELSE <<>>,
                       WindowPoint(MinuteValues(name)), MinuteMaxLen)
     ELSE minute_metrics[name]]

\* _get_metrics_summary
summary_names == {recent_metrics[i].name : i \in 1..Len(recent_metrics)}

get_metrics_summary ==
  [name \in summary_names |->
     LET values == Values(SelectSeq(recent_metrics, LAMBDA m : m.name = name))
     IN  [avg |-> <<SeqSum(values), Len(values)>>, min |-> SeqMin(values),
          max |-> SeqMax(values), count |-> Len(values),
          latest |-> values[Len(values)]]]

\* the payload of _broadcast_updates; al is the alert table at that moment
monitoring_update(al) ==
  [type |-> "monitoring_update", timestamp |-> now,
   active_executions |-> RunningCount(active_executions),
   recent_alerts |-> Cardinality({a \in DOMAIN al :
                      ~al[a].resolved /\ now - al[a].timestamp < RecentAlerts}),
   metrics_summary |-> get_metrics_summary]

\* the iteration over the subscriber set begins: used is the set's size the
\* iterator remembers, current the sink whose send is awaited, yielded the
\* deliveries that have ended, each with its outcome
BeginIteration(payload, sinks, first) ==
  [outcome |-> "sending", payload |-> payload, before |-> sinks,
   used |-> Cardinality(sinks), current |-> first, yielded |-> <<>>,
   mutated |-> FALSE, cancel |-> FALSE]

Yielded(it) == {it.yielded[i].sink : i \in 1..Len(it.yielded)}

\* disconnected of _broadcast_updates
Disconnected(it) ==
  {it.yielded[i].sink : i \in {j \in 1..Len(it.yielded) : ~it.yielded[j].ok}}

\* what the iterator may yield next: the sinks not yet yielded, or, once the
\* set has been modified under it without a change of size, any member
Candidates(it) ==
  IF it.mutated THEN websocket_connections ELSE websocket_connections \ Yielded(it)

\* the awaited websocket.send(...) of task id returns (ok) or raises, and
\* the iteration yields the next sink x, whose send is awaited next; a send
\* cancelled by stop_monitoring raises CancelledError, which the bare except
\* around it takes as a failed delivery
broadcast_next(id, ok, x) ==
  /\ tasks[id].pc = "sending"
  /\ tasks[id].it.cancel => ~ok
  /\ LET it == [tasks[id].it EXCEPT
                  !.yielded = Append(@, [sink |-> tasks[id].it.current, ok |-> ok]),
                  !.cancel = FALSE]
     IN  /\ Cardinality(websocket_connections) = it.used
         /\ x \in Candidates(it)
         /\ tasks' = [tasks EXCEPT ![id].it = [it EXCEPT !.current = x]]
  /\ UNCHANGED <<now, serviceVars, running, monitoring_task, cleanup_task, ready,
                 histVars, queueVars>>

\* the awaited websocket.send(...) of task id returns (ok) or raises, and
\* the iteration ends: with RuntimeError("Set changed size during
\* iteration"), which _monitoring_loop catches and logs, or normally,
\* followed by the discard of the disconnected sinks
broadcast_end(id, ok) ==
  /\ tasks[id].pc = "sending"
  /\ tasks[id].it.cancel => ~ok
  /\ LET it == [tasks[id].it EXCEPT
                  !.yielded = Append(@, [sink |-> tasks[id].it.current, ok |-> ok]),
                  !.cancel = FALSE]
         left == websocket_connections \ Disconnected(it)
     IN  IF Cardinality(websocket_connections) # it.used
         THEN /\ tasks' = LoopAgainIn([tasks EXCEPT ![id].it = [it EXCEPT !.outcome = "error"]], id)
              /\ UNCHANGED websocket_connections
         ELSE /\ it.mutated \/ Candidates(it) = {}
              /\ websocket_connections' = left
              /\ tasks' = LoopAgainIn(
                             [(IF left # websocket_connections THEN Disturb(tasks) ELSE tasks)
                                EXCEPT ![id].it = [it EXCEPT !.outcome = "done"]], id)
  /\ UNCHANGED <<now, metrics_buffer, alerts, active_executions, performance_profiles,
                 minute_metrics, hour_metrics, day_metrics, running, monitoring_task,
                 cleanup_task, ready, histVars, queueVars>>

\* register_websocket(websocket)
register_websocket(websocket) ==
  /\ websocket_connections' = websocket_connections \cup {websocket}
  /\ tasks' = IF websocket \in websocket_connections THEN tasks ELSE Disturb(tasks)
  /\ UNCHANGED <<now, metrics_buffer, alerts, active_executions, performance_profiles,
                 minute_metrics, hour_metrics, day_metrics, running, monitoring_task,
                 cleanup_task, ready, histVars, queueVars>>

\* unregister_websocket(websocket)
unregister_websocket(websocket) ==
  /\ websocket_connections' = websocket_connections \ {websocket}
  /\ tasks' = IF websocket \in websocket_connections THEN Disturb(tasks) ELSE tasks
  /\ UNCHANGED <<now, metrics_buffer, alerts, active_executions, performance_profiles,
                 minute_metrics, hour_metrics, day_metrics, running, monitoring_task,
                 cleanup_task, ready, histVars, queueVars>>

\* one pass of the body of _monitoring_loop, from the end of its sleep:
\* _process_alerts, _update_aggregations and _broadcast_updates up to its
\* return or its first suspension
monitoring_tick ==
  /\ ready # <<>>
  /\ Head(ready).kind = "step"
  /\ tasks[Head(ready).task].loop = "monitoring"
  /\ tasks[Head(ready).task].pc = "woken"
  /\ LET id == Head(ready).task
         errs == recent_errors(recent_metrics)
     IN  /\ IF error_rate_spike(recent_metrics)
            THEN create_alert("critical", [text |-> "High Error Rate Detected"],
                     [text |-> "Average error rate over last 5 minutes",
                      avg |-> <<SeqSum(errs), Len(errs)>>],
                     [error_rate |-> <<SeqSum(errs), Len(errs)>>,
                      sample_size |-> Len(errs)], 0)
            ELSE UNCHANGED <<alerts, websocket_connections, alertLog>>
         /\ minute_metrics' = update_aggregations
         /\ overflowed' = overflowed \cup
              {name \in MinuteNames \cap DOMAIN minute_metrics :
                 Len(minute_metrics[name]) >= MinuteMaxLen}
         \* _broadcast_updates returns at once when there is no sink;
         \* otherwise it builds the payload and is suspended in the
         \* delivery to the first sink the iteration yields
         /\ LET ts == IF alertLog' # alertLog THEN alert_push_disturbs(tasks) ELSE tasks
            IN  IF websocket_connections' = {}
                THEN tasks' = LoopAgainIn(ts, id)
                ELSE \E first \in websocket_connections' :
                       tasks' = [ts EXCEPT ![id].pc = "sending",
                                           ![id].it = BeginIteration(monitoring_update(alerts'),
                                                        websocket_connections', first)]
         /\ ready' = Ticked(Tail(ready))
  /\ UNCHANGED <<now, metrics_buffer, active_executions, performance_profiles,
                 hour_metrics, day_metrics, running, monitoring_task, cleanup_task,
                 recorded, purged, noops, response, raised, queueVars, clockSteps>>

\* ------------------------------------------------ slow heartbeat: one sweep
old_profiles_at_horizon ==
  {e \in DOMAIN performance_profiles :
     now - performance_profiles[e].start_time >= ProfileRetention}

old_profiles ==
  {e \in DOMAIN performance_profiles :
     now - performance_profiles[e].start_time > ProfileRetention}

old_alerts == {a \in DOMAIN alerts : now - alerts[a].timestamp > AlertRetention}

cleanup_sweep_trims_buffer ==
  /\ ready # <<>>
  /\ Head(ready).kind = "step"
  /\ tasks[Head(ready).task].loop = "cleanup"
  /\ tasks[Head(ready).task].pc = "woken"
  /\ performance_profiles' = DictDel(performance_profiles, old_profiles)
  /\ alerts' = DictDel(alerts, old_alerts)
  /\ purged' = purged \cup old_profiles
  /\ tasks' = LoopAgain(Head(ready).task)
  /\ ready' = Tail(ready)
  /\ metrics_buffer' = SelectSeq(metrics_buffer, LAMBDA m : now - m.timestamp < RecentWindow)
  /\ UNCHANGED <<now, active_executions, minute_metrics, hour_metrics,
                 day_metrics, websocket_connections, running, monitoring_task,
                 cleanup_task, recorded, alertLog, noops, response, overflowed, raised, queueVars, clockSteps>>

\* one pass of the body of _cleanup_loop, from the end of its sleep
cleanup_sweep ==
  /\ ready # <<>>
  /\ Head(ready).kind = "step"
  /\ tasks[Head(ready).task].loop = "cleanup"
  /\ tasks[Head(ready).task].pc = "woken"
  /\ performance_profiles' = DictDel(performance_profiles, old_profiles)
  /\ alerts' = DictDel(alerts, old_alerts)
  /\ purged' = purged \cup old_profiles
  /\ tasks' = LoopAgain(Head(ready).task)
  /\ ready' = Tail(ready)
  /\ UNCHANGED <<now, metrics_buffer, active_executions, minute_metrics, hour_metrics,
                 day_metrics, websocket_connections, running, monitoring_task,
                 cleanup_task, recorded, alertLog, noops, response, overflowed, raised, queueVars, clockSteps>>

\* one pass of the body of _cleanup_loop in which a statement raises an
\* Exception before anything is deleted: "except Exception as e:" logs it and
\* the loop goes on
cleanup_sweep_error ==
  /\ ready # <<>>
  /\ Head(ready).kind = "step"
  /\ tasks[Head(ready).task].loop = "cleanup"
  /\ tasks[Head(ready).task].pc = "woken"
  /\ tasks' = LoopAgainIn([tasks EXCEPT ![Head(ready).task].it = [outcome |-> "error"]],
                          Head(ready).task)
  /\ ready' = Tail(ready)
  /\ UNCHANGED <<now, serviceVars, running, monitoring_task, cleanup_task, histVars, queueVars>>

\* ---------------------------------------------------------- specifications
\* The ring buffer: direct records and the records made by the profiler's
\* calls, up to MaxRecords of them, with the threshold checks they detach
NextBuffer ==
  \/ /\ Len(recorded) < MaxRecords
     /\ \E value \in {1 * Unit, 2 * Unit} :
          record_metric("agent_execution_started", value, {}, "counter")
  \/ /\ Len(recorded) < MaxRecords
     /\ start_execution_tracking("e1")
  \/ /\ Len(recorded) < MaxRecords
     /\ record_function_call("e1", "f", 10, TRUE)
  \/ /\ Len(recorded) + 1 < MaxRecords
     /\ end_execution_tracking("e1", "completed", "None")
  \/ check_metric_thresholds

SpecBuffer == Init /\ [][NextBuffer]_vars

\* C1: the ring buffer never holds more than its capacity, and it holds
\* exactly the min(n, capacity) most recently recorded metrics, oldest first
C1_RingBufferHoldsMostRecent ==
  /\ Len(metrics_buffer) <= BufferMaxLen
  /\ Len(metrics_buffer) = IF Len(recorded) < BufferMaxLen THEN Len(recorded)
                           ELSE BufferMaxLen
  /\ \A i \in 1..Len(metrics_buffer) :
       metrics_buffer[i] = recorded[Len(recorded) - Len(metrics_buffer) + i]

\* the buffer has overflowed, and records made by the profiler are part of it
C1_Witness ==
  /\ Len(recorded) > BufferMaxLen
  /\ metrics_buffer[1] # recorded[1]
  /\ \E i \in 1..Len(recorded) : recorded[i].name = "execution_duration_ms"
  /\ \E i \in 1..Len(recorded) : recorded[i].name = "function_duration_ms"

\* Alerting before the heartbeats are started: records of a registered name
\* around both thresholds and of an unregistered name, and their detached
\* checks, within the same millisecond or in later ones
MetricInputs ==
  { <<"response_time_ms", 6000 * Unit>>, <<"response_time_ms", 5000 * Unit>>,
    <<"response_time_ms", 2000 * Unit>>, <<"response_time_ms", 1999 * Unit>>,
    <<"agent_execution_started", 1 * Unit>> }

NextAlerts ==
  \/ /\ Len(recorded) < MaxAlertRecords
     /\ \E in \in MetricInputs : record_metric(in[1], in[2], {}, "gauge")
  \/ check_metric_thresholds
  \/ /\ clockSteps < MaxClockSteps
     /\ AdvanceTime(1)

SpecAlerts == Init /\ [][NextAlerts]_vars

\* The service as main.py runs it, started before any request is handled:
\* the fast heartbeat, with error_rate samples of 0.00 and 0.50 recorded
\* before or after a minute of clock time passes
NextHeartbeat ==
  \/ /\ running
     /\ Len(recorded) < MaxHeartbeatRecords
     /\ \E value \in {0, 50} : record_metric("error_rate", value, {}, "gauge")
  \/ check_metric_thresholds
  \/ start_monitoring
  \/ LoopEnter
  \/ \E id \in DOMAIN tasks : TimerFire(id)
  \/ monitoring_tick
  \/ /\ running
     /\ clockSteps < MaxHeartbeatClock
     /\ AdvanceTime(RecentWindow)

SpecHeartbeat == Init /\ [][NextHeartbeat]_vars

\* The started service with a record at the critical threshold and a record
\* of an unregistered name, over several heartbeat periods
NextResponse ==
  \/ /\ running
     /\ Len(recorded) < MaxResponseRecords
     /\ \E in \in {<<"response_time_ms", 5000 * Unit>>, <<"agent_execution_started", Unit>>} :
          record_metric(in[1], in[2], {}, "timer")
  \/ check_metric_thresholds
  \/ start_monitoring
  \/ LoopEnter
  \/ \E id \in DOMAIN tasks : TimerFire(id)
  \/ monitoring_tick
  \/ /\ running
     /\ clockSteps < MaxClockSteps
     /\ AdvanceTime(SleepMonitoring)

SpecResponse == Init /\ [][NextResponse]_vars

\* ------------------------------------------------------------------ claims
Registered(m) == m.name \in {"response_time_ms", "error_rate", "memory_usage_mb",
                             "cpu_usage_percent"}
AtCritical(m) == Registered(m) /\ m.value >= alert_thresholds[m.name].critical
AtWarning(m)  == /\ Registered(m)
                 /\ m.value >= alert_thresholds[m.name].warning
                 /\ m.value < alert_thresholds[m.name].critical

CheckPending(n) == \E i \in 1..Len(ready) : ready[i].kind = "check" /\ ready[i].n = n
AlertsOf(n) == {j \in 1..Len(alertLog) : alertLog[j].cause = n}

\* C2: once the threshold check of a recorded metric has run, it has created
\* exactly one CRITICAL alert if value >= critical, exactly one WARNING alert if
\* warning <= value < critical, and no alert if value < warning or the name
\* has no thresholds; before it has run it has created none
C2_ThresholdClassification ==
  \A n \in 1..Len(recorded) :
    LET m == recorded[n] IN
    IF CheckPending(n) THEN AlertsOf(n) = {}
    ELSE /\ AtCritical(m) =>
              /\ Cardinality(AlertsOf(n)) = 1
              /\ \A j \in AlertsOf(n) : /\ alertLog[j].alert.level = "critical"
                                        /\ alertLog[j].alert.metadata.metric = m
         /\ AtWarning(m) =>
              /\ Cardinality(AlertsOf(n)) = 1
              /\ \A j \in AlertsOf(n) : /\ alertLog[j].alert.level = "warning"
                                        /\ alertLog[j].alert.metadata.metric = m
         /\ (~AtCritical(m) /\ ~AtWarning(m)) => AlertsOf(n) = {}

\* all cases have been checked: at the critical threshold, at the warning
\* threshold, and below it or with an unregistered name
C2_Witness ==
  /\ ready = <<>>
  /\ \E n \in 1..Len(recorded) :
       /\ recorded[n].value = alert_thresholds.response_time_ms.critical
       /\ \E j \in AlertsOf(n) : alertLog[j].alert.level = "critical"
  /\ \E n \in 1..Len(recorded) :
       /\ recorded[n].value = alert_thresholds.response_time_ms.warning
       /\ \E j \in AlertsOf(n) : alertLog[j].alert.level = "warning"
  /\ \E n \in 1..Len(recorded) :
       \/ recorded[n].name = "agent_execution_started"
       \/ recorded[n].value < alert_thresholds.response_time_ms.warning

\* C3: a record at or above the critical threshold of its name has its check
\* still queued, having waited through at most one heartbeat tick, or has had
\* its CRITICAL alert created; and an alert is in the alert table when its
\* creation step ends
C3_CheckPendingOrAlerted ==
  \A n \in 1..Len(recorded) :
    AtCritical(recorded[n]) =>
      \/ \E i \in 1..Len(ready) :
           ready[i].kind = "check" /\ ready[i].n = n /\ ready[i].ticks <= 1
      \/ \E j \in AlertsOf(n) : /\ alertLog[j].alert.level = "critical"
                                /\ alertLog[j].alert.metadata.metric = recorded[n]

C3_StoredOnCreation ==
  alertLog' # alertLog =>
    LET a == alertLog'[Len(alertLog')].alert
    IN  a.id \in DOMAIN alerts' /\ alerts'[a.id] = a

C3_CriticalAlertWithinOneTick ==
  []C3_CheckPendingOrAlerted /\ [][C3_StoredOnCreation]_vars

\* a critical record was made while a tick was due, its check waited through
\* that tick, and its alert is in the table
C3_Witness ==
  /\ minute_metrics # <<>>
  /\ \E n \in 1..Len(recorded) : \E j \in AlertsOf(n) :
       /\ alertLog[j].alert.level = "critical"
       /\ alertLog[j].alert.id \in DOMAIN alerts
       /\ alerts[alertLog[j].alert.id] = alertLog[j].alert
       /\ \E name \in DOMAIN minute_metrics : \E k \in 1..Len(minute_metrics[name]) :
            minute_metrics[name][k].timestamp <= recorded[n].timestamp

\* C4: any two alerts ever created have distinct ids
C4_AlertIdsNeverCollide ==
  \A i, j \in 1..Len(alertLog) :
    i # j => alertLog[i].alert.id # alertLog[j].alert.id

\* C5: when every threshold check has run (and no sweep has purged), the
\* alert table holds one threshold alert per breaching record
C5_OneAlertPerBreach ==
  (\A i \in 1..Len(ready) : ready[i].kind # "check") =>
    Cardinality({id \in DOMAIN alerts : "metric" \in DOMAIN alerts[id].metadata})
      = Cardinality({n \in 1..Len(recorded) :
                       AtCritical(recorded[n]) \/ AtWarning(recorded[n])})

\* a step in which a fast-heartbeat task runs _process_alerts
TickStep ==
  \E id \in DOMAIN tasks :
    /\ tasks[id].loop = "monitoring"
    /\ tasks[id].pc = "woken"
    /\ tasks'[id].pc \notin {"woken", "cancelling"}

\* the step creates the pattern alert
PatternAlertEmitted ==
  /\ Len(alertLog') = Len(alertLog) + 1
  /\ alertLog'[Len(alertLog')].alert.title.text = "High Error Rate Detected"
  /\ alertLog'[Len(alertLog')].alert.level = "critical"

\* sum(samples) / 5 > 0.10 for five samples in hundredths
MeanOfFiveExceedsTenPercent(samples) ==
  /\ Len(samples) = 5
  /\ samples[1].value + samples[2].value + samples[3].value
       + samples[4].value + samples[5].value > 50

AllErrorRateSamples == SelectSeq(recorded, LAMBDA m : m.name = "error_rate")

FreshErrorRateSamples ==
  SelectSeq(metrics_buffer, LAMBDA m : m.name = "error_rate" /\ now - m.timestamp < RecentWindow)

NextProfiler ==
  \/ /\ Len(recorded) < MaxProfilerRecords
     /\ start_execution_tracking("e1")
  \/ /\ Len(recorded) < MaxProfilerRecords
     /\ record_function_call("e1", "agent_manager.execute_agent", 10, TRUE)
  \/ /\ Len(recorded) + 1 < MaxProfilerRecords
     /\ "e1" \in DOMAIN performance_profiles =>
          now - performance_profiles["e1"].start_time <= MaxExecutionMs
     /\ end_execution_tracking("e1", "completed", "None")
  \/ check_metric_thresholds
  \/ start_monitoring
  \/ LoopEnter
  \/ \E id \in DOMAIN tasks : TimerFire(id)
  \/ monitoring_tick
  \/ cleanup_sweep
  \/ /\ clockSteps < MaxProfilerClock
     /\ AdvanceTime(ProfileRetention + 1)

SpecProfiler == Init /\ [][NextProfiler]_vars

\* The profiler as execute_agent of main.py uses it: an execution id is
\* started once, function calls are recorded, and the execution is ended in
\* the try block and possibly again in the except block
NextExecution ==
  \/ /\ Len(recorded) < MaxExecutionRecords
     /\ "e1" \notin DOMAIN performance_profiles
     /\ start_execution_tracking("e1")
  \/ /\ Len(recorded) < MaxExecutionRecords
     /\ record_function_call("e1", "agent_manager.execute_agent", 10, TRUE)
  \/ /\ Len(recorded) + 1 < MaxExecutionRecords
     /\ \/ end_execution_tracking("e1", "completed", "None")
        \/ end_execution_tracking("e1", "error", "ValidationError")
  \/ check_metric_thresholds
  \/ slow_execution_alert
  \/ /\ clockSteps < MaxExecutionClock
     /\ \E d \in {1, BottleneckMs} : AdvanceTime(d)

SpecExecution == Init /\ [][NextExecution]_vars

\* the step is a call of start_execution_tracking: it records the
\* active_executions gauge tagged execution_start
StartStep ==
  /\ Len(recorded') = Len(recorded) + 1
  /\ <<"type", "execution_start">> \in recorded'[Len(recorded')].tags

\* the step is a call of record_function_call for a known id
FunctionCallStep ==
  /\ Len(recorded') = Len(recorded) + 1
  /\ recorded'[Len(recorded')].name = "function_duration_ms"

\* C7: a start_execution call leaves every profile that already exists as it
\* is: its start_time, function-call list, end_time and duration do not change
C7_DuplicateStartRejected ==
  [][StartStep =>
       \A e \in DOMAIN performance_profiles :
         /\ e \in DOMAIN performance_profiles'
         /\ performance_profiles'[e].start_time = performance_profiles[e].start_time
         /\ performance_profiles'[e].function_calls = performance_profiles[e].function_calls
         /\ performance_profiles'[e].end_time = performance_profiles[e].end_time
         /\ performance_profiles'[e].duration_ms = performance_profiles[e].duration_ms]_vars

ProfileStatus(e) ==
  IF e \in DOMAIN performance_profiles
  THEN IF performance_profiles[e].end_time = None THEN "active" ELSE "ended"
  ELSE IF e \in purged THEN "purged" ELSE "not_started"

\* C8: the status of an execution changes only along
\* not_started -> active -> ended -> purged
C8_ForwardTransitionsOnly ==
  [][\A e \in {"e1", "e2"} :
       \/ ProfileStatus(e)' = ProfileStatus(e)
       \/ ProfileStatus(e) = "not_started" /\ ProfileStatus(e)' = "active"
       \/ ProfileStatus(e) = "active" /\ ProfileStatus(e)' = "ended"
       \/ ProfileStatus(e) = "ended" /\ ProfileStatus(e)' = "purged"]_vars

\* C8, its second half alone: a sweep purges a profile only from the ended state
C8_PurgedOnlyFromEnded ==
  [][\A e \in {"e1", "e2"} :
       ProfileStatus(e)' = "purged" => ProfileStatus(e) \in {"ended", "purged"}]_vars

\* C9: once end_time and duration of a profile are set, they do not change
\* for as long as the profile exists
C9_DurationSetOnce ==
  [][\A e \in DOMAIN performance_profiles :
       (performance_profiles[e].duration_ms # None /\ e \in DOMAIN performance_profiles') =>
         /\ performance_profiles'[e].duration_ms = performance_profiles[e].duration_ms
         /\ performance_profiles'[e].end_time = performance_profiles[e].end_time]_vars

\* C10: a record_function_call step leaves the function-call list of every
\* ended execution as it is
C10_NoAppendAfterEnd ==
  [][FunctionCallStep =>
       \A e \in DOMAIN performance_profiles :
         performance_profiles[e].end_time # None =>
           performance_profiles'[e].function_calls = performance_profiles[e].function_calls]_vars

\* C11: a record_function_call or end_execution_tracking call for an id
\* without a profile changes neither the profile table, the active-execution
\* table, the ring buffer nor the alert table and detaches no task; and no
\* metric is ever recorded for an execution id that has no profile
C11_UnknownIdIsNoOp ==
  [][/\ noops' # noops =>
          /\ \A c \in noops' \ noops : c.execution_id \notin DOMAIN performance_profiles
          /\ performance_profiles' = performance_profiles
          /\ active_executions' = active_executions
          /\ metrics_buffer' = metrics_buffer
          /\ alerts' = alerts
          /\ ready' = ready
     /\ \A i \in (Len(recorded) + 1)..Len(recorded') :
          \A t \in recorded'[i].tags :
            t[1] = "execution_id" => t[2] \in DOMAIN performance_profiles]_vars

\* end_execution_tracking was called for an execution whose profile a sweep
\* had purged, and its active-execution entry is still marked running
C11_Witness ==
  \E c \in noops :
    /\ c.op = "end_execution_tracking"
    /\ c.purged
    /\ c.execution_id \notin DOMAIN performance_profiles
    /\ c.execution_id \in DOMAIN active_executions
    /\ active_executions[c.execution_id].status = "running"

SlowAlertTasks(q) == Cardinality({i \in 1..Len(q) : q[i].kind = "slow_alert"})

\* the step is a call of end_execution_tracking for the known id e: it
\* records the execution_duration_ms timer of e
EndStepOf(e) ==
  /\ Len(recorded') = Len(recorded) + 2
  /\ recorded'[Len(recorded) + 1].name = "execution_duration_ms"
  /\ <<"execution_id", e>> \in recorded'[Len(recorded) + 1].tags

\* the step creates a "Slow Execution Detected" alert
SlowAlertCreated ==
  /\ Len(alertLog') = Len(alertLog) + 1
  /\ alertLog'[Len(alertLog')].alert.title.text = "Slow Execution Detected"

\* C12: a call of end_execution_tracking for a known id appends the tag
\* slow_execution to the profile and detaches exactly one alert task if the
\* duration it computed is above 5000 ms, and does neither if it is 5000 ms
\* or less; the detached task creates exactly one WARNING alert for that
\* execution when it runs, and no other step creates such an alert
C12_SlowExecutionTagAndAlert ==
  [][/\ \A e \in DOMAIN performance_profiles :
          EndStepOf(e) =>
            LET d == performance_profiles'[e].duration_ms IN
            /\ d = now - performance_profiles[e].start_time
            /\ alertLog' = alertLog
            /\ d > 5000 =>
                 /\ performance_profiles'[e].bottlenecks =
                      Append(performance_profiles[e].bottlenecks, "slow_execution")
                 /\ SlowAlertTasks(ready') = SlowAlertTasks(ready) + 1
                 /\ ready'[Len(ready')].kind = "slow_alert"
                 /\ ready'[Len(ready')].execution_id = e
                 /\ ready'[Len(ready')].duration_ms = d
            /\ d <= 5000 =>
                 /\ performance_profiles'[e].bottlenecks = performance_profiles[e].bottlenecks
                 /\ SlowAlertTasks(ready') = SlowAlertTasks(ready)
     /\ SlowAlertCreated <=>
          /\ ready # <<>>
          /\ Head(ready).kind = "slow_alert"
          /\ ready' = Tail(ready)
     /\ SlowAlertCreated =>
          /\ alertLog'[Len(alertLog')].alert.level = "warning"
          /\ alertLog'[Len(alertLog')].alert.metadata.execution_id = Head(ready).execution_id
          /\ alertLog'[Len(alertLog')].alert.metadata.duration_ms = Head(ready).duration_ms
          /\ Head(ready).duration_ms > 5000]_vars

\* an execution was ended after exactly 5000 ms without tag or alert, and
\* ended after 5001 ms with the tag and its WARNING alert
C12_Witness ==
  /\ \E i \in 1..Len(recorded) :
       /\ recorded[i].name = "execution_duration_ms"
       /\ recorded[i].value = 5000 * Unit
  /\ \E e \in DOMAIN performance_profiles :
       /\ performance_profiles[e].duration_ms = 5001
       /\ performance_profiles[e].bottlenecks = <<"slow_execution">>
       /\ SlowAlertTasks(ready) = 0
       /\ Len(alertLog) = 1
       /\ alertLog[1].alert.level = "warning"
       /\ alertLog[1].alert.metadata = [execution_id |-> e, duration_ms |-> 5001]

\* The started service with up to three subscribers that come and go and
\* whose deliveries succeed or fail, over a heartbeat period
Sinks == {"s1", "s2", "s3"}

NextBroadcast ==
  \/ start_monitoring
  \/ LoopEnter
  \/ \E id \in DOMAIN tasks : TimerFire(id)
  \/ monitoring_tick
  \/ \E id \in DOMAIN tasks : \E ok \in BOOLEAN : \E x \in Sinks :
       /\ tasks[id].pc = "sending"
       /\ Len(tasks[id].it.yielded) + 1 < MaxYields
       /\ broadcast_next(id, ok, x)
  \/ \E id \in DOMAIN tasks : \E ok \in BOOLEAN : broadcast_end(id, ok)
  \/ /\ running
     /\ \E ws \in Sinks : register_websocket(ws)
  \/ /\ running
     /\ \E ws \in Sinks : unregister_websocket(ws)
  \/ /\ running
     /\ clockSteps < MaxBroadcastClock
     /\ AdvanceTime(SleepMonitoring)

SpecBroadcast == Init /\ [][NextBroadcast]_vars

\* Alert pushes: subscribers that come and go, records at the critical and
\* at the warning threshold and of an unregistered name, and their checks
NextPush ==
  \/ \E ws \in Sinks : register_websocket(ws)
  \/ \E ws \in Sinks : unregister_websocket(ws)
  \/ /\ Len(recorded) < MaxPushRecords
     /\ \E in \in {<<"response_time_ms", 5000 * Unit>>, <<"response_time_ms", 2000 * Unit>>,
                   <<"agent_execution_started", Unit>>} :
          record_metric(in[1], in[2], {}, "timer")
  \/ check_metric_thresholds
  \/ /\ clockSteps < MaxClockSteps
     /\ AdvanceTime(1)

SpecPush == Init /\ [][NextPush]_vars

\* the step ends the broadcast of heartbeat task id, normally or by an error
BroadcastEnds(id) == tasks[id].pc = "sending" /\ tasks'[id].pc # "sending"

\* the sinks the broadcast of iteration it has delivered its payload to
Delivered(it) ==
  {it.yielded[i].sink : i \in {j \in 1..Len(it.yielded) : it.yielded[j].ok}}

\* C13 for the periodic summary: when a broadcast ends, every sink whose
\* delivery failed has left the subscriber set, the broadcast has removed no
\* other sink, and every sink that was registered when it began and is
\* still registered has received the payload or failed
C13_SummaryPrunesExactlyFailed ==
  [][\A id \in DOMAIN tasks :
       BroadcastEnds(id) =>
         LET it == tasks'[id].it IN
         /\ Disconnected(it) \cap websocket_connections' = {}
         /\ websocket_connections \ websocket_connections' \subseteq Disconnected(it)
         /\ (it.before \cap websocket_connections') \subseteq Delivered(it)]_vars

\* C13 for the alert push: when an alert is created, a sink leaves the
\* subscriber set only if its send was called and failed, and every sink
\* that stays has been sent the alert
C13_PushPrunesExactlyFailed ==
  [][alertLog' # alertLog =>
       /\ websocket_connections \ websocket_connections'
            \subseteq alert_push_sent(websocket_connections)
       /\ websocket_connections' \subseteq alert_push_sent(websocket_connections)]_vars

\* C13: after a broadcast, of the periodic summary or of an alert, the
\* subscriber set is the set before it minus exactly the sinks whose
\* delivery failed, and every other sink has received the payload
C13_BroadcastPrunesExactlyFailed ==
  C13_SummaryPrunesExactlyFailed /\ C13_PushPrunesExactlyFailed

\* C14: the step that creates an alert calls send with that alert on every
\* sink that is in the subscriber set at that moment
C14_AlertPushedToEverySink ==
  [][alertLog' # alertLog =>
       alert_push_sent(websocket_connections) = websocket_connections]_vars

\* the sinks one broadcast has called send on, in order
Attempts(it) ==
  [i \in 1..Len(it.yielded) |-> it.yielded[i].sink]
    \o (IF it.outcome = "sending" THEN <<it.current>> ELSE <<>>)

\* C15: within one tick no sink is sent the summary more than once, whether
\* its earlier delivery succeeded or failed
C15_SummaryAtMostOncePerTick ==
  \A id \in DOMAIN tasks :
    tasks[id].it.outcome # "none" =>
      \A i, j \in 1..Len(Attempts(tasks[id].it)) :
        i # j => Attempts(tasks[id].it)[i] # Attempts(tasks[id].it)[j]

\* The started service over days: one execution that is started once and
\* perhaps ended, a record at the critical threshold, all made while the
\* event loop is idle, and clock steps of 24 hours, of 7 days and of one
\* millisecond
NextSweep ==
  \/ start_monitoring
  \/ LoopEnter
  \/ \E id \in DOMAIN tasks : TimerFire(id)
  \/ monitoring_tick
  \/ cleanup_sweep
  \/ /\ running /\ ready = <<>>
     /\ Len(recorded) < MaxSweepRecords
     /\ "e1" \notin DOMAIN performance_profiles /\ "e1" \notin purged
     /\ start_execution_tracking("e1")
  \/ /\ ready = <<>>
     /\ Len(recorded) + 1 < MaxSweepRecords
     /\ "e1" \in DOMAIN performance_profiles
     /\ performance_profiles["e1"].end_time = None
     /\ now - performance_profiles["e1"].start_time <= MaxExecutionMs
     /\ end_execution_tracking("e1", "completed", "None")
  \/ /\ running /\ ready = <<>>
     /\ Len(recorded) < MaxSweepRecords
     /\ alertLog = <<>>
     /\ record_metric("response_time_ms", 5000 * Unit, {}, "timer")
  \/ check_metric_thresholds
  \/ /\ running
     /\ clockSteps < MaxSweepClock
     /\ \E d \in {1, ProfileRetention, AlertRetention} :
          now + d <= MaxSweepTime /\ AdvanceTime(d)

SpecSweep == Init /\ [][NextSweep]_vars

\* a step in which a slow-heartbeat task runs its sweep
SweepStep ==
  \E id \in DOMAIN tasks :
    /\ tasks[id].loop = "cleanup"
    /\ tasks[id].pc = "woken"
    /\ tasks'[id].pc \notin {"woken", "cancelling"}

\* C16: a sweep removes exactly the profiles started more than 24 hours
\* (86400000 ms) ago and the alerts created more than 7 days (604800000 ms)
\* ago, whatever their state, and leaves the others as they are; no other
\* step removes a profile or an alert from its table
C16_SweepRemovesAllAndOnlyExpired ==
  [][/\ SweepStep =>
          /\ DOMAIN performance_profiles' =
               {e \in DOMAIN performance_profiles :
                  now - performance_profiles[e].start_time <= 86400000}
          /\ \A e \in DOMAIN performance_profiles' :
               performance_profiles'[e] = performance_profiles[e]
          /\ DOMAIN alerts' =
               {a \in DOMAIN alerts : now - alerts[a].timestamp <= 604800000}
          /\ \A a \in DOMAIN alerts' : alerts'[a] = alerts[a]
     /\ ~SweepStep =>
          /\ DOMAIN performance_profiles \subseteq DOMAIN performance_profiles'
          /\ DOMAIN alerts \subseteq DOMAIN alerts']_vars

\* a sweep has just run; it or an earlier one has removed a profile whose
\* execution was still active, and an alert
C16_Witness ==
  /\ "e1" \in purged
  /\ "e1" \in DOMAIN active_executions
  /\ active_executions["e1"].status = "running"
  /\ \E j \in 1..Len(alertLog) : alertLog[j].alert.id \notin DOMAIN alerts
  /\ \E id \in DOMAIN tasks :
       /\ tasks[id].loop = "cleanup"
       /\ tasks[id].pc = "sleeping"
       /\ tasks[id].wake = now + SleepCleanup

\* The health query, made once while the event loop is idle at the end of a
\* history of calls: first perhaps a record at the critical or the warning
\* threshold, then executions started one at a time or ten at once
\* (numbered ids), then error_rate samples of 0.01 after perhaps one of 0.00,
\* with clock steps of 5 minutes and of 1 hour in between
ErrorRateRecords == Len(SelectSeq(recorded, LAMBDA m : m.name = "error_rate"))

StartBurst == 10

NextHealth ==
  \/ /\ ready = <<>> /\ response.op = "none"
     /\ recorded = <<>>
     /\ \E value \in {5000 * Unit, 2000 * Unit} :
          record_metric("response_time_ms", value, {}, "timer")
  \/ /\ ready = <<>> /\ response.op = "none"
     /\ ErrorRateRecords = 0
     /\ \E k \in {1, StartBurst} :
          LET n == Cardinality(DOMAIN active_executions) IN
          /\ IF k = 1 THEN n \in {0, LoadExecutions}
             ELSE n % StartBurst = 0 /\ n < LoadExecutions
          /\ start_executions([i \in 1..k |-> n + i])
  \/ /\ ready = <<>> /\ response.op = "none"
     /\ ErrorRateRecords < MaxHealthErrors
     /\ \E value \in (IF ErrorRateRecords = 0 THEN {0, 1} ELSE {1}) :
          record_metric("error_rate", value, {}, "gauge")
  \/ check_metric_thresholds
  \/ /\ ready = <<>> /\ response.op = "none"
     /\ clockSteps < MaxHealthClock
     /\ \E d \in {HealthWindow, ActiveAlertAge} : AdvanceTime(d)
  \/ ready = <<>> /\ response.op = "none" /\ get_system_health_call

SpecHealth == Init /\ [][NextHealth]_vars

\* The alert query, made once while the event loop is idle after records at
\* the critical or the warning threshold and clock steps of 1 ms and of 1 hour
NextAlertQuery ==
  \/ /\ ready = <<>> /\ response.op = "none"
     /\ Len(recorded) < MaxAlertQueryRecords
     /\ \E value \in {5000 * Unit, 2000 * Unit, 1 * Unit} :
          record_metric("response_time_ms", value, {}, "timer")
  \/ check_metric_thresholds
  \/ /\ ready = <<>> /\ response.op = "none"
     /\ clockSteps < MaxAlertQueryClock
     /\ \E d \in {1, ActiveAlertAge - 1, ActiveAlertAge} : AdvanceTime(d)
  \/ ready = <<>> /\ response.op = "none" /\ get_active_alerts_call

SpecAlertQuery == Init /\ [][NextAlertQuery]_vars

\* a step in which GET /monitoring/health is answered
HealthStep == response.op = "none" /\ response'.op = "get_system_health"

\* the unresolved alerts of level critical, and those raised within the hour
UnresolvedCritical ==
  {a \in DOMAIN alerts : alerts[a].level = "critical" /\ ~alerts[a].resolved}

RecentUnresolvedCritical ==
  {a \in UnresolvedCritical : now - alerts[a].timestamp < 60 * 60 * 1000}

\* C17: get_system_health answers status critical exactly when an unresolved
\* alert of level critical raised less than one hour ago exists; an
\* unresolved critical alert older than that does not make the status
\* critical
C17_CriticalIffRecentCriticalAlert ==
  [][HealthStep =>
       (response'.result.status = "critical") = (RecentUnresolvedCritical # {})]_vars

\* the samples of the buffer that get_system_health counts as errors: named
\* error_rate, above zero, recorded less than 5 minutes ago
ErrorSamples ==
  {i \in 1..Len(metrics_buffer) :
     /\ metrics_buffer[i].name = "error_rate"
     /\ metrics_buffer[i].value > 0
     /\ now - metrics_buffer[i].timestamp < 5 * 60 * 1000}

RunningExecutions ==
  {e \in DOMAIN active_executions : active_executions[e].status = "running"}

\* C18: the status get_system_health answers is critical if an unresolved
\* critical alert exists, otherwise degraded if more than 5 error samples
\* were recorded in the last 5 minutes, otherwise under_load if more than 50
\* executions are running, otherwise healthy; exactly 5 error samples do not
\* make it degraded and exactly 50 running executions do not make it
\* under_load
C18_HealthStatusPrecedence ==
  [][HealthStep =>
       LET status == response'.result.status
           errors == Cardinality(ErrorSamples)
           executions == Cardinality(RunningExecutions)
       IN  /\ status = (IF UnresolvedCritical # {} THEN "critical"
                        ELSE IF errors > 5 THEN "degraded"
                        ELSE IF executions > 50 THEN "under_load"
                        ELSE "healthy")
           /\ errors = 5 => status # "degraded"
           /\ executions = 50 => status # "under_load"
           /\ UNCHANGED <<now, serviceVars, loopVars, ready>>]_vars

\* the health query has answered healthy with exactly 5 error samples in the
\* last 5 minutes and exactly 50 running executions
C18_Witness ==
  /\ response.op = "get_system_health"
  /\ response.result.status = "healthy"
  /\ Cardinality(ErrorSamples) = 5
  /\ Cardinality(RunningExecutions) = 50

\* a step in which GET /monitoring/alerts is answered
AlertQueryStep == response.op = "none" /\ response'.op = "get_active_alerts"

\* C19: the alert query answers exactly the alerts of the alert table that
\* are unresolved and were raised less than one hour ago, and changes no
\* state of the service
C19_ActiveAlertsAreRecentUnresolved ==
  [][AlertQueryStep =>
       /\ response'.result.alerts =
            {alerts[a] : a \in {b \in DOMAIN alerts :
                                  /\ ~alerts[b].resolved
                                  /\ now - alerts[b].timestamp < 60 * 60 * 1000}}
       /\ response'.result.count = Cardinality(response'.result.alerts)
       /\ UNCHANGED <<now, serviceVars, loopVars, ready>>]_vars

\* the alert query has answered one alert while the alert table holds
\* another one, raised an hour ago or earlier
C19_Witness ==
  /\ response.op = "get_active_alerts"
  /\ response.result.count = 1
  /\ \E a \in DOMAIN alerts : now - alerts[a].timestamp >= 60 * 60 * 1000

\* the metric names with a sample of the current minute in the buffer: the
\* windows a tick gives a point
NamesOfThisMinute ==
  {metrics_buffer[i].name :
     i \in {j \in 1..Len(metrics_buffer) :
              metrics_buffer[j].timestamp \div MinuteLen = now \div MinuteLen}}

C20_WindowsBounded ==
  /\ \A name \in DOMAIN minute_metrics : Len(minute_metrics[name]) <= MinuteMaxLen
  /\ \A name \in DOMAIN hour_metrics : Len(hour_metrics[name]) <= 60
  /\ \A name \in DOMAIN day_metrics : Len(day_metrics[name]) <= 24

C20_OldestDroppedFirst ==
  \A name \in DOMAIN minute_metrics' :
    LET old == IF name \in DOMAIN minute_metrics THEN minute_metrics[name] ELSE <<>>
        new == minute_metrics'[name]
    IN  IF name \in NamesOfThisMinute
        THEN /\ new # <<>>
             /\ new[Len(new)].timestamp = (now \div MinuteLen) * MinuteLen
             /\ SubSeq(new, 1, Len(new) - 1) =
                  (IF Len(old) = MinuteMaxLen THEN SubSeq(old, 2, Len(old)) ELSE old)
        ELSE new = old

\* C20: no sliding window ever holds more points than its bucket count
\* (MinuteMaxLen for the minute windows, 60 for the hour and 24 for the day
\* windows), for any metric name and after any number of ticks; a tick that
\* gives a point to a full window drops the window's oldest point and keeps
\* the others in order
C20_SlidingWindowsBounded ==
  []C20_WindowsBounded /\ [][TickStep => C20_OldestDroppedFirst]_vars

\* a full minute window was given a point, and it holds two different
\* points, the newer one last
C20_Witness ==
  \E name \in overflowed :
    /\ Len(minute_metrics[name]) = MinuteMaxLen
    /\ minute_metrics[name][1].count < minute_metrics[name][MinuteMaxLen].count

\* The minute windows: the fast heartbeat, records of two names without a
\* threshold rule, each made when the check of the one before has run, and
\* clock steps of one sleep and of the rest of a minute
NextAggregation ==
  \/ /\ running
     /\ Len(recorded) < MaxAggregationRecords
     /\ \A i \in 1..Len(ready) : ready[i].kind # "check"
     /\ \E in \in {<<"agent_execution_started", 1 * Unit>>,
                   <<"agent_execution_started", 3 * Unit>>,
                   <<"simulation_execution", 1 * Unit>>} :
          record_metric(in[1], in[2], {}, "counter")
  \/ check_metric_thresholds
  \/ start_monitoring
  \/ LoopEnter
  \/ \E id \in DOMAIN tasks : TimerFire(id)
  \/ monitoring_tick
  \/ /\ running
     /\ clockSteps < MaxAggregationClock
     /\ \E d \in {SleepMonitoring, MinuteLen - SleepMonitoring} : AdvanceTime(d)

SpecAggregation == Init /\ [][NextAggregation]_vars

\* the buffered samples of a name recorded less than 60 s ago, and those
\* recorded in the calendar minute of the clock
SamplesOfLastMinute(name) ==
  SelectSeq(metrics_buffer, LAMBDA m : m.name = name /\ now - m.timestamp < 60000)

SamplesOfThisMinute(name) ==
  SelectSeq(metrics_buffer,
            LAMBDA m : m.name = name /\ m.timestamp \div 60000 = now \div 60000)

BufferedNames == {metrics_buffer[i].name : i \in 1..Len(metrics_buffer)}

\* the step appends to the minute window of name one point computed over
\* samples, dropping the oldest point of a full window
OnePointAppended(name, samples) ==
  LET old == IF name \in DOMAIN minute_metrics THEN minute_metrics[name] ELSE <<>>
      values == [i \in 1..Len(samples) |-> samples[i].value]
  IN  /\ name \in DOMAIN minute_metrics'
      /\ minute_metrics'[name] =
           Append(IF Len(old) >= MinuteMaxLen THEN SubSeq(old, 2, Len(old)) ELSE old,
                  [timestamp |-> (now \div 60000) * 60000,
                   avg |-> <<SeqSum(values), Len(values)>>,
                   min |-> SeqMin(values), max |-> SeqMax(values),
                   count |-> Len(values)])

WindowUntouched(name) ==
  IF name \in DOMAIN minute_metrics
  THEN name \in DOMAIN minute_metrics' /\ minute_metrics'[name] = minute_metrics[name]
  ELSE name \notin DOMAIN minute_metrics'

\* C21: a tick appends, for every metric name with a sample recorded less
\* than 60 s ago, exactly one point to the name's minute window, with avg,
\* min, max and count over exactly the samples of that name recorded less
\* than 60 s ago
C21_PointOverLastSixtySeconds ==
  [][TickStep =>
       \A name \in BufferedNames :
         SamplesOfLastMinute(name) # <<>> =>
           OnePointAppended(name, SamplesOfLastMinute(name))]_vars

\* C21 as amended: a tick appends, for every metric name with a buffered
\* sample recorded in the calendar minute of the tick, exactly one point to
\* the name's minute window, with avg, min, max and count over exactly the
\* buffered samples of that name recorded in that calendar minute; the
\* windows of the other names stay as they are
C21_PointOverCalendarMinute ==
  [][TickStep =>
       \A name \in BufferedNames \cup DOMAIN minute_metrics :
         IF SamplesOfThisMinute(name) # <<>>
         THEN OnePointAppended(name, SamplesOfThisMinute(name))
         ELSE WindowUntouched(name)]_vars

\* a tick has just run in a minute in which a name has one sample, while
\* the buffer holds another sample of that name that is less than 60 s old
\* and was recorded in the minute before: the point counts one sample
C21_Witness ==
  /\ \E id \in DOMAIN tasks :
       /\ tasks[id].loop = "monitoring"
       /\ tasks[id].pc = "sleeping"
       /\ tasks[id].wake = now + SleepMonitoring
  /\ \E name \in DOMAIN minute_metrics :
       LET w == minute_metrics[name] IN
       /\ w[Len(w)].timestamp = (now \div 60000) * 60000
       /\ w[Len(w)].count = 1
       /\ Len(SamplesOfThisMinute(name)) = 1
       /\ Len(SamplesOfLastMinute(name)) = 2

\* C22: once ticks have given a metric's minute window a point, the
\* metric's hour window and its day window hold points too
C22_HourAndDayWindowsFilled ==
  \A name \in DOMAIN minute_metrics :
    minute_metrics[name] # <<>> =>
      /\ name \in DOMAIN hour_metrics /\ hour_metrics[name] # <<>>
      /\ name \in DOMAIN day_metrics /\ day_metrics[name] # <<>>

\* The foreground calls in every state of the subsystem: never started,
\* running and stopped, with a sink registered or not, each made when the
\* checks of the one before have run; the clock stands still, so no
\* heartbeat wakes
NoCheckPending == \A i \in 1..Len(ready) : ready[i].kind # "check"

NextForeground ==
  \/ (running \/ Len(tasks) < 2 * MaxForegroundStarts) /\ start_monitoring
  \/ stop_monitoring
  \/ LoopEnter
  \/ LoopCancelled
  \/ recorded = <<>> /\ register_websocket("s1")
  \/ /\ Len(recorded) < MaxForegroundRecords /\ NoCheckPending
     /\ record_metric("response_time_ms", 5000 * Unit, {}, "timer")
  \/ /\ Len(recorded) < MaxForegroundRecords /\ NoCheckPending
     /\ start_execution_tracking("e1")
  \/ /\ Len(recorded) < MaxForegroundRecords /\ NoCheckPending
     /\ record_function_call("e1", "f", 10, TRUE)
  \/ /\ Len(recorded) + 1 < MaxForegroundRecords /\ NoCheckPending
     /\ end_execution_tracking("e1", "error", "boom")
  \/ check_metric_thresholds

SpecForeground == Init /\ [][NextForeground]_vars

NextLifecycle ==
  \/ (running \/ Len(tasks) < 2 * MaxStarts) /\ start_monitoring
  \/ stop_monitoring
  \/ LoopEnter
  \/ LoopCancelled
  \/ \E id \in DOMAIN tasks : TimerFire(id)
  \/ monitoring_tick
  \/ cleanup_sweep
  \/ \E id \in DOMAIN tasks : \E ok \in BOOLEAN : broadcast_end(id, ok)
  \/ recorded = <<>> /\ register_websocket("s1")
  \/ /\ running
     /\ Len(recorded) < MaxLifecycleRecords
     /\ record_metric("response_time_ms", 5000 * Unit, {}, "timer")
  \/ check_metric_thresholds
  \/ /\ clockSteps < MaxLifecycleClock
     /\ \E d \in {SleepMonitoring, SleepCleanup} : AdvanceTime(d)

SpecLifecycle == Init /\ [][NextLifecycle]_vars

\* a step in which stop_monitoring stops the running subsystem
StopStep == running /\ ~running'

ChecksInFlight(q) == SelectSeq(q, LAMBDA t : t.kind = "check")

\* C24: stop_monitoring cancels both heartbeat tasks, so that from the stop
\* until a later start the ticks and the sweeps come to an end: the stop
\* turns each of the two tasks that sleeps into a cancelled one and requests
\* the cancellation of one suspended in a delivery; the two tasks run a tick
\* or a sweep only while the subsystem is running, and while it is stopped no
\* task at all goes to sleep for another pass; the stop neither cancels nor
\* runs the threshold checks in flight, which stay scheduled
C24_StopCancelsHeartbeats ==
  /\ [][\A id \in DOMAIN tasks :
          (/\ id \in {monitoring_task, cleanup_task}
           /\ tasks[id].pc = "woken"
           /\ tasks'[id].pc \notin {"woken", "cancelling"}) => running]_vars
  /\ [][\A id \in DOMAIN tasks :
          (tasks[id].pc # "sleeping" /\ tasks'[id].pc = "sleeping") => running']_vars
  /\ [][StopStep =>
          /\ ChecksInFlight(ready') = ChecksInFlight(ready)
          /\ alerts' = alerts
          /\ \A id \in DOMAIN tasks :
               /\ (id \in {monitoring_task, cleanup_task} /\ tasks[id].pc = "sleeping")
                    => tasks'[id].pc = "cancelling"
               /\ (id \in {monitoring_task, cleanup_task} /\ tasks[id].pc = "sending")
                    => tasks'[id].it.cancel]_vars

\* the subsystem was stopped and never started again, both heartbeat tasks
\* have ended, and a threshold check that was in flight at the stop has
\* created its alert afterwards
C24_Witness ==
  /\ ~running
  /\ Len(tasks) = 2
  /\ \A id \in DOMAIN tasks : tasks[id].pc \in {"cancelled", "done"}
  /\ \E j \in 1..Len(alertLog) :
       /\ ~alertLog[j].running
       /\ alertLog[j].cause > 0

\* the tasks of a loop that can still run its body: created, asleep, or
\* woken with the step scheduled
Scheduled(loop) ==
  {id \in DOMAIN tasks : tasks[id].loop = loop /\ tasks[id].pc \in {"created", "sleeping", "woken"}}

\* C26: sweeps are non-reentrant across starts and stops: at any time at
\* most one Housekeeper task is scheduled to sweep; a sweep runs to its end
\* in one step, in which no other task moves, and only at that end is the next
\* sweep scheduled, one sleep later
C26_SweepsNonReentrant ==
  /\ [](Cardinality(Scheduled("cleanup")) <= 1)
  /\ [][SweepStep =>
          \E id \in Scheduled("cleanup") :
            /\ Scheduled("cleanup") = {id}
            /\ tasks'[id].pc = "sleeping"
            /\ tasks'[id].wake = now + SleepCleanup
            /\ \A other \in DOMAIN tasks \ {id} : tasks'[other] = tasks[other]]_vars

\* after a stop and a second start, the second Housekeeper task has swept and
\* sleeps until its next sweep; the first one was cancelled
C26_Witness ==
  /\ Len(tasks) = 4
  /\ tasks[2].loop = "cleanup" /\ tasks[2].pc = "cancelled"
  /\ tasks[4].loop = "cleanup" /\ tasks[4].pc = "sleeping"
  /\ now >= SleepCleanup
  /\ tasks[4].wake = now + SleepCleanup

\* One tick in full: error_rate records of 0.50, each made when the check of
\* the one before has run, a sink registered at any idle moment, the fast
\* heartbeat with its delivery, and a clock step of one sleep
NextTick ==
  \/ start_monitoring
  \/ LoopEnter
  \/ \E id \in DOMAIN tasks : TimerFire(id)
  \/ monitoring_tick
  \/ \E id \in DOMAIN tasks : \E ok \in BOOLEAN : broadcast_end(id, ok)
  \/ NoCheckPending /\ register_websocket("s1")
  \/ /\ running /\ NoCheckPending
     /\ Len(recorded) < MaxTickRecords
     /\ record_metric("error_rate", 50, {}, "gauge")
  \/ check_metric_thresholds
  \/ /\ running
     /\ clockSteps < MaxTickClock
     /\ AdvanceTime(SleepMonitoring)

SpecTick == Init /\ [][NextTick]_vars

\* the error_rate samples less than 60 s old: there are five of them and the
\* mean of the last five is above 0.10
FreshErrors == SelectSeq(metrics_buffer,
                         LAMBDA m : m.name = "error_rate" /\ now - m.timestamp < RecentWindow)

PatternFires ==
  /\ Len(FreshErrors) >= PatternSamples
  /\ LET last == SubSeq(FreshErrors, Len(FreshErrors) - PatternSamples + 1, Len(FreshErrors))
     IN  SeqSum([i \in 1..PatternSamples |-> last[i].value]) * 10 > PatternSamples * Unit

\* C25: a tick evaluates the alerts, then aggregates the windows, then
\* broadcasts: when the tick is first suspended, in its first delivery, or
\* returns, the pattern alert of the tick has been created if it was due,
\* every window of the minute has its point, the delivery goes to the sinks
\* that the alert evaluation left and its summary counts the alerts that
\* the alert evaluation left
C25_PhasesInOrder ==
  [][TickStep =>
       /\ (alertLog' # alertLog) = PatternFires
       /\ \A name \in BufferedNames :
            SamplesOfThisMinute(name) # <<>> =>
              /\ name \in DOMAIN minute_metrics'
              /\ minute_metrics'[name][Len(minute_metrics'[name])].count =
                   Len(SamplesOfThisMinute(name))
              /\ Len(minute_metrics'[name]) =
                   (IF name \in DOMAIN minute_metrics /\ Len(minute_metrics[name]) < MinuteMaxLen
                    THEN Len(minute_metrics[name]) + 1
                    ELSE IF name \in DOMAIN minute_metrics THEN MinuteMaxLen ELSE 1)
       /\ \A id \in DOMAIN tasks :
            (tasks[id].pc = "woken" /\ tasks'[id].pc = "sending") =>
              /\ tasks'[id].it.before = websocket_connections'
              /\ tasks'[id].it.before # {}
              /\ tasks'[id].it.yielded = <<>>
              /\ tasks'[id].it.payload.timestamp = now
              /\ tasks'[id].it.payload.recent_alerts =
                   Cardinality({a \in DOMAIN alerts' :
                                  /\ ~alerts'[a].resolved
                                  /\ now - alerts'[a].timestamp < 300000})]_vars

\* a tick is suspended in its first delivery: the window of error_rate has
\* the point of this tick and an alert is counted in the summary
C25_Witness ==
  \E id \in DOMAIN tasks :
    /\ tasks[id].pc = "sending"
    /\ tasks[id].it.yielded = <<>>
    /\ tasks[id].it.payload.timestamp = now
    /\ tasks[id].it.payload.recent_alerts > 0
    /\ "error_rate" \in DOMAIN minute_metrics
    /\ minute_metrics["error_rate"][Len(minute_metrics["error_rate"])].count
         = Len(SamplesOfThisMinute("error_rate"))

\* Ingestion against both heartbeats: records of one name with the values 1,
\* 2, 3, 1, ... made at any moment the check of the one before has run, also
\* while a tick is suspended in its delivery to the one sink; ticks and sweeps
\* over clock steps of a fast and of a slow sleep; one query at the end
NoAnswer == response.op = "none"

NextIngest ==
  \/ NoAnswer /\ start_monitoring
  \/ NoAnswer /\ LoopEnter
  \/ NoAnswer /\ \E id \in DOMAIN tasks : TimerFire(id)
  \/ NoAnswer /\ monitoring_tick
  \/ NoAnswer /\ cleanup_sweep
  \/ NoAnswer /\ \E id \in DOMAIN tasks : \E ok \in BOOLEAN : broadcast_end(id, ok)
  \/ NoAnswer /\ recorded = <<>> /\ register_websocket("s1")
  \/ /\ NoAnswer /\ running /\ NoCheckPending
     /\ Len(recorded) < MaxIngestRecords
     /\ record_metric("agent_execution_started", ((Len(recorded) % 3) + 1) * Unit, {}, "counter")
  \/ NoAnswer /\ check_metric_thresholds
  \/ /\ NoAnswer /\ running
     /\ clockSteps < MaxIngestClock
     /\ \E d \in {SleepMonitoring, SleepCleanup} : AdvanceTime(d)
  \/ NoAnswer /\ ready = <<>> /\ get_system_health_call
  \/ NoAnswer /\ ready = <<>> /\ get_active_alerts_call

SpecIngest == Init /\ [][NextIngest]_vars

\* the ring buffer as it was when k metrics had been recorded, and its
\* samples of a name in the calendar minute that starts at t
BufferAt(k) == LastN(SubSeq(recorded, 1, k), BufferMaxLen)

SnapshotValues(k, name, t) ==
  Values(SelectSeq(BufferAt(k),
                   LAMBDA m : m.name = name /\ m.timestamp \div 60000 = t \div 60000))

\* C27: every point of every minute window has its avg, min, max and count
\* computed from one and the same snapshot of the ring buffer, the buffer as
\* it was after some number of records: a metric is reflected in all four or
\* in none; the windows change in a tick step only, so a metric recorded
\* while the tick is suspended in a delivery does not reach the tick's points
C27_PointFromOneSnapshot ==
  /\ [](\A name \in DOMAIN minute_metrics :
          \A i \in 1..Len(minute_metrics[name]) :
            LET p == minute_metrics[name][i] IN
            \E k \in 1..Len(recorded) :
              LET values == SnapshotValues(k, name, p.timestamp) IN
              /\ values # <<>>
              /\ p.count = Len(values)
              /\ p.avg = <<SeqSum(values), Len(values)>>
              /\ p.min = SeqMin(values)
              /\ p.max = SeqMax(values))
  /\ [][minute_metrics' # minute_metrics => TickStep]_vars

\* a metric was recorded while the tick is suspended in its delivery: the
\* point of the tick does not count it
C27_Witness ==
  /\ \E id \in DOMAIN tasks : tasks[id].loop = "monitoring" /\ tasks[id].pc = "sending"
  /\ "agent_execution_started" \in DOMAIN minute_metrics
  /\ LET w == minute_metrics["agent_execution_started"] IN
       /\ w[Len(w)].count >= 2
       /\ w[Len(w)].min < w[Len(w)].max
       /\ w[Len(w)].count < Len(SamplesOfThisMinute("agent_execution_started"))

\* a step that answers a query, and a step that runs a threshold check
QueryStep == response' # response

CheckStep == Len(ChecksInFlight(ready')) < Len(ChecksInFlight(ready))

\* C28: the ring buffer changes only by a record, which appends its metric
\* and drops the oldest of a full buffer: ticks (alert evaluation, window
\* aggregation, broadcast), sweeps, threshold checks and queries record
\* nothing and leave the buffer as it is, and every buffered metric is still
\* as it was recorded
C28_BufferChangesOnlyByRecord ==
  /\ [][metrics_buffer' =
          LastN(metrics_buffer \o SubSeq(recorded', Len(recorded) + 1, Len(recorded')),
                BufferMaxLen)]_vars
  /\ [][(TickStep \/ SweepStep \/ CheckStep \/ QueryStep
           \/ (\E id \in DOMAIN tasks : tasks[id].pc = "sending" /\ tasks'[id].pc # "sending"))
          => metrics_buffer' = metrics_buffer /\ recorded' = recorded]_vars
  /\ [](metrics_buffer = LastN(recorded, BufferMaxLen))

\* the full buffer has dropped its oldest metric, a tick has aggregated, a
\* sweep has run and a query was answered
C28_Witness ==
  /\ Len(recorded) > BufferMaxLen
  /\ Len(metrics_buffer) = BufferMaxLen
  /\ minute_metrics # <<>>
  /\ \E id \in DOMAIN tasks :
       tasks[id].loop = "cleanup" /\ tasks[id].pc = "sleeping" /\ tasks[id].wake > SleepCleanup
  /\ response.op = "get_system_health"

\* C29: a broadcast whose subscriber set is changed while it is suspended
\* in a delivery still ends well: when it ends, every sink that was
\* registered when it began and still is has been attempted, and no sink
\* whose delivery failed is left in the set
C29_BroadcastSurvivesSetChange ==
  [][\A id \in DOMAIN tasks :
       (tasks[id].pc = "sending" /\ tasks'[id].pc # "sending") =>
         /\ (tasks'[id].it.before \cap websocket_connections) \subseteq Yielded(tasks'[id].it)
         /\ Disconnected(tasks'[id].it) \cap websocket_connections' = {}]_vars

\* C30: across starts and stops at most one fast-heartbeat loop and at most
\* one Housekeeper loop are alive: of each loop at most one task is
\* scheduled to run its body again
C30_AtMostOneLoopEach ==
  \A loop \in {"monitoring", "cleanup"} : Cardinality(Scheduled(loop)) <= 1

\* the step is a call of end_execution_tracking for the id e, with or
\* without a profile
EndCallOf(e) ==
  \/ EndStepOf(e)
  \/ \E c \in noops' \ noops : c.op = "end_execution_tracking" /\ c.execution_id = e

\* C31: the active-execution count is the number of ids started and not yet
\* ended: a start of e1 makes the running executions those before and e1, an
\* end of e1 makes them those before without e1, whatever sweeps happened
\* since the start, and a sweep leaves them as they are
C31_ActiveCountIsStartedNotEnded ==
  /\ [][StartStep => RunningCount(active_executions') =
                       Cardinality(RunningExecutions \cup {"e1"})]_vars
  /\ [][EndCallOf("e1") => RunningCount(active_executions') =
                             Cardinality(RunningExecutions \ {"e1"})]_vars
  /\ [][SweepStep => RunningCount(active_executions') = Cardinality(RunningExecutions)]_vars

\* C32: the active-execution table holds only ids that have a profile: once
\* a sweep has purged a profile, no entry of that id is left in the table
C32_ActiveExecutionsHaveProfiles ==
  DOMAIN active_executions \subseteq DOMAIN performance_profiles

\* Errors in the heartbeats: a broadcast whose subscriber set changes size
\* while it is suspended ends with RuntimeError, a sweep raises; the service
\* is started once and may be stopped
NextFaults ==
  \/ tasks = <<>> /\ start_monitoring
  \/ stop_monitoring
  \/ LoopEnter
  \/ LoopCancelled
  \/ \E id \in DOMAIN tasks : TimerFire(id)
  \/ monitoring_tick
  \/ cleanup_sweep
  \/ cleanup_sweep_error
  \/ \E id \in DOMAIN tasks : \E ok \in BOOLEAN : broadcast_end(id, ok)
  \/ running /\ \E ws \in {"s1", "s2"} : register_websocket(ws)
  \/ /\ running
     /\ clockSteps < MaxFaultClock
     /\ \E d \in {SleepMonitoring, SleepCleanup} : AdvanceTime(d)

SpecFaults == Init /\ [][NextFaults]_vars

\* a step in which the pass of task id ends with an exception that its
\* loop catches
ErrorStep(id) ==
  /\ tasks[id].pc \in {"woken", "sending"}
  /\ tasks'[id].pc \notin {"woken", "sending", "cancelling"}
  /\ tasks'[id].it.outcome = "error"

\* C33: an error raised during a tick or a sweep does not end its loop: if
\* the subsystem is running when the error is caught, the task sleeps for its
\* next tick or sweep, one sleep later; a task ends only when the subsystem
\* is not running
C33_ErrorDoesNotEndLoop ==
  /\ [][\A id \in DOMAIN tasks :
          (ErrorStep(id) /\ running) =>
            /\ tasks'[id].pc = "sleeping"
            /\ tasks'[id].wake = now + SleepOf(tasks[id].loop)]_vars
  /\ [][\A id \in DOMAIN tasks :
          (tasks[id].pc # "done" /\ tasks'[id].pc = "done") => ~running]_vars

\* both heartbeats sleep for their next pass after a pass that ended with
\* an error, while the subsystem is running
C33_Witness ==
  /\ running
  /\ \A loop \in {"monitoring", "cleanup"} :
       \E id \in DOMAIN tasks :
         /\ tasks[id].loop = loop
         /\ tasks[id].it.outcome = "error"
         /\ tasks[id].pc = "sleeping"
         /\ tasks[id].wake > now

\* ------------------------------------------------------ RequestQueueService
\* request_queue_service = RequestQueueService(max_concurrent_requests=2,
\* requests_per_minute=10)
max_concurrent_requests == 2
requests_per_minute == 10

\* asyncio.wait_for(self.queue.get(), timeout=1.0), asyncio.sleep(1) at the
\* concurrency limit, asyncio.sleep(0.5) after a timeout, and the 60 s of
\* _can_make_request and _get_wait_time, in ms
GetTimeout == 1000
SleepConcurrent == 1000
SleepAfterTimeout == 500
RateWindow == 60000

\* steps of the event loop's queue: a _process_queue task, the queue.get()
\* task that wait_for creates for it, and a _handle_request task
ProcessStep(i) == [kind |-> "process", task |-> i, ticks |-> 0]
GetStep(i) == [kind |-> "get", task |-> i, ticks |-> 0]
HandleStep(h) == [kind |-> "handle", task |-> h, ticks |-> 0]

\* asyncio.create_task(self._process_queue()): pc is created, getting (in
\* wait_for), timedout (wait_for's timer has fired), sleeping, woken or done;
\* get is the state of the queue.get() task: pending (its step is scheduled),
\* waiting (suspended on the empty queue), got (finished with item) or none
ProcessTask == [pc |-> "created", wake |-> None, get |-> "none", item |-> None]

\* _can_make_request: the history without the entries older than a minute
recent_history == SelectSeq(request_history, LAMBDA t : t > now - RateWindow)

\* _get_wait_time, after _can_make_request has cleaned the history
get_wait_time(history) ==
  IF history = <<>> THEN 0
  ELSE LET w == RateWindow - (now - SeqMin(history)) + 1000
       IN  IF w > 0 THEN w ELSE 0

\* _process_queue from "while not self.queue.empty() or self.active_requests
\* > 0" to the loop's next suspension or its end, for task i; ps, q and rd
\* are the tasks, the queue and the event loop's queue as the step has left
\* them so far, flag is is_processing
process_loop(i, ps, q, rd, flag) ==
  IF q = <<>> /\ active_requests = 0
  THEN /\ procs' = [ps EXCEPT ![i] = [pc |-> "done", wake |-> None, get |-> "none", item |-> None]]
       /\ is_processing' = FALSE
       /\ request_history' = request_history
       /\ ready' = rd
  ELSE /\ is_processing' = flag
       /\ request_history' = recent_history
       /\ IF Len(recent_history) >= requests_per_minute
          THEN /\ procs' = [ps EXCEPT ![i] = [pc |-> "sleeping", get |-> "none", item |-> None,
                                              wake |-> now + get_wait_time(recent_history)]]
               /\ ready' = rd
          ELSE IF active_requests >= max_concurrent_requests
          THEN /\ procs' = [ps EXCEPT ![i] = [pc |-> "sleeping", get |-> "none", item |-> None,
                                              wake |-> now + SleepConcurrent]]
               /\ ready' = rd
          ELSE /\ procs' = [ps EXCEPT ![i] = [pc |-> "getting", get |-> "pending", item |-> None,
                                              wake |-> now + GetTimeout]]
               /\ ready' = Append(rd, GetStep(i))

\* the getters of asyncio.Queue: the get tasks suspended on the empty queue
Getters == {i \in DOMAIN procs : procs[i].get = "waiting"}

FirstGetter == CHOOSE i \in Getters : \A j \in Getters : i <= j

\* add_request(request_type, user_input, context): queue.put never suspends
\* on the unbounded queue, so the call runs in one step; put_nowait wakes the
\* first getter
add_request(request_type, user_input) ==
  LET base_key == <<user_input, request_type>>
      request_data == [id |-> <<now \div 1000, request_type>>, base_key |-> base_key,
                       type |-> request_type, user_input |-> user_input,
                       n |-> Len(accepted) + 1]
      woken == IF Getters = {} THEN procs ELSE [procs EXCEPT ![FirstGetter].get = "pending"]
      rd == IF Getters = {} THEN ready ELSE Append(ready, GetStep(FirstGetter))
  IN  IF base_key \in processing_requests
      THEN UNCHANGED vars
      ELSE /\ queue' = Append(queue, request_data)
           /\ accepted' = Append(accepted, request_data)
           /\ IF ~is_processing
              THEN /\ procs' = Append(woken, ProcessTask)
                   /\ ready' = Append(rd, ProcessStep(Len(procs) + 1))
              ELSE /\ procs' = woken
                   /\ ready' = rd
           /\ UNCHANGED <<now, serviceVars, loopVars, histVars, active_requests,
                          request_history, is_processing, processing_requests, results,
                          handlers, handled>>

\* the first step of a _process_queue task: "if self.is_processing: return",
\* else the flag is set and the loop entered
process_enter_unguarded ==
  /\ ready # <<>>
  /\ Head(ready).kind = "process"
  /\ procs[Head(ready).task].pc = "created"
  /\ process_loop(Head(ready).task, procs, queue, Tail(ready), TRUE)
  /\ UNCHANGED <<now, serviceVars, loopVars, histVars, queue, active_requests,
                 processing_requests, results, handlers, accepted, handled>>

process_enter ==
  /\ ready # <<>>
  /\ Head(ready).kind = "process"
  /\ procs[Head(ready).task].pc = "created"
  /\ IF is_processing
     THEN /\ procs' = [procs EXCEPT ![Head(ready).task].pc = "done"]
          /\ ready' = Tail(ready)
          /\ UNCHANGED <<is_processing, request_history>>
     ELSE process_loop(Head(ready).task, procs, queue, Tail(ready), TRUE)
  /\ UNCHANGED <<now, serviceVars, loopVars, histVars, queue, active_requests,
                 processing_requests, results, handlers, accepted, handled>>

\* a later step of a _process_queue task: after a sleep; after wait_for has
\* returned a request, which is handed to a new _handle_request task; or
\* after wait_for's timeout, when the get task is cancelled (a request put
\* since then stays in the queue) and TimeoutError is handled
process_step ==
  /\ ready # <<>>
  /\ Head(ready).kind = "process"
  /\ LET i == Head(ready).task
         p == procs[i]
     IN  /\ p.pc \in {"woken", "getting", "timedout"}
         /\ IF p.pc = "woken"
            THEN /\ process_loop(i, procs, queue, Tail(ready), is_processing)
                 /\ UNCHANGED <<handlers, handled>>
            ELSE IF p.get = "got"
            THEN /\ handlers' = Append(handlers, [pc |-> "created", request |-> p.item])
                 /\ handled' = Append(handled, [time |-> now, n |-> p.item.n])
                 /\ process_loop(i, procs, queue,
                                 Append(Tail(ready), HandleStep(Len(handlers) + 1)),
                                 is_processing)
            ELSE /\ p.pc = "timedout"
                 /\ IF active_requests = 0
                    THEN /\ procs' = [procs EXCEPT ![i] = [pc |-> "done", wake |-> None,
                                                          get |-> "none", item |-> None]]
                         /\ is_processing' = FALSE
                    ELSE /\ procs' = [procs EXCEPT ![i] = [pc |-> "sleeping", get |-> "none",
                                                          item |-> None,
                                                          wake |-> now + SleepAfterTimeout]]
                         /\ is_processing' = is_processing
                 /\ ready' = Tail(ready)
                 /\ UNCHANGED <<request_history, handlers, handled>>
  /\ UNCHANGED <<now, serviceVars, loopVars, histVars, queue, active_requests,
                 processing_requests, results, accepted>>

\* a step of the queue.get() task of wait_for: it takes the first request and
\* ends, which resumes its _process_queue task, or it is suspended on the
\* empty queue; the step of a get task that was cancelled does nothing
get_step ==
  /\ ready # <<>>
  /\ Head(ready).kind = "get"
  /\ LET i == Head(ready).task
         p == procs[i]
     IN  IF p.get = "pending" /\ p.pc \in {"getting", "timedout"}
         THEN IF queue # <<>>
              THEN /\ queue' = Tail(queue)
                   /\ procs' = [procs EXCEPT ![i].get = "got", ![i].item = Head(queue)]
                   /\ ready' = IF p.pc = "getting"
                               THEN Append(Tail(ready), ProcessStep(i))
                               ELSE Tail(ready)
              ELSE /\ procs' = [procs EXCEPT ![i].get = "waiting"]
                   /\ ready' = Tail(ready)
                   /\ UNCHANGED queue
         ELSE /\ ready' = Tail(ready)
              /\ UNCHANGED <<queue, procs>>
  /\ UNCHANGED <<now, serviceVars, loopVars, histVars, active_requests, request_history,
                 is_processing, processing_requests, results, handlers, accepted, handled>>

\* the timer of task i fires: its sleep is over, or its wait_for has timed
\* out before the get task has finished
QueueTimerFire(i) ==
  /\ procs[i].wake # None
  /\ now >= procs[i].wake
  /\ \/ /\ procs[i].pc = "sleeping"
        /\ procs' = [procs EXCEPT ![i].pc = "woken", ![i].wake = None]
        /\ ready' = Append(ready, ProcessStep(i))
     \/ /\ procs[i].pc = "getting" /\ procs[i].get # "got"
        /\ procs' = [procs EXCEPT ![i].pc = "timedout", ![i].wake = None]
        /\ ready' = Append(ready, ProcessStep(i))
  /\ UNCHANGED <<now, serviceVars, loopVars, histVars, queue, active_requests,
                 request_history, is_processing, processing_requests, results, handlers,
                 accepted, handled>>

\* the first step of a _handle_request task: the request is counted as
\* active and the task is suspended in generate_comprehensive_blueprint; a
\* request of another type is recorded and done with in this step
handle_request_start ==
  /\ ready # <<>>
  /\ Head(ready).kind = "handle"
  /\ LET h == Head(ready).task
         r == handlers[h].request
     IN  /\ handlers[h].pc = "created"
         /\ IF r.type = "blueprint"
            THEN /\ processing_requests' = processing_requests \cup {r.base_key}
                 /\ active_requests' = active_requests + 1
                 /\ handlers' = [handlers EXCEPT ![h].pc = "awaiting"]
                 /\ UNCHANGED request_history
            ELSE /\ processing_requests' = processing_requests \ {r.base_key}
                 /\ active_requests' = active_requests
                 /\ request_history' = Append(request_history, now)
                 /\ handlers' = [handlers EXCEPT ![h].pc = "done"]
  /\ ready' = Tail(ready)
  /\ UNCHANGED <<now, serviceVars, loopVars, histVars, queue, is_processing, results,
                 procs, accepted, handled>>

\* generate_comprehensive_blueprint returns (ok) or raises: the result or
\* the error is stored, a success is recorded in the history, and the
\* request is not active any more
handle_request_end(h, ok) ==
  /\ handlers[h].pc = "awaiting"
  /\ LET r == handlers[h].request
     IN  /\ results' = DictSet(results, r.id,
                               [status |-> IF ok THEN "completed" ELSE "failed", n |-> r.n])
         /\ request_history' = IF ok THEN Append(request_history, now) ELSE request_history
         /\ processing_requests' = processing_requests \ {r.base_key}
  /\ active_requests' = active_requests - 1
  /\ handlers' = [handlers EXCEPT ![h].pc = "done"]
  /\ UNCHANGED <<now, serviceVars, loopVars, histVars, ready, queue, is_processing,
                 procs, accepted, handled>>

\* The request queue: blueprint requests of two users, added at any moment,
\* whose generation succeeds or fails at any later moment; the clock moves
\* on when the event loop is idle, by the length of a timeout or half of it
NextQueue ==
  \/ /\ Len(accepted) < MaxRequests
     /\ \E user_input \in {"a", "b"} : add_request("blueprint", user_input)
  \/ process_enter
  \/ process_step
  \/ get_step
  \/ \E i \in DOMAIN procs : QueueTimerFire(i)
  \/ handle_request_start
  \/ \E h \in DOMAIN handlers : \E ok \in BOOLEAN : handle_request_end(h, ok)
  \/ /\ ready = <<>>
     /\ clockSteps < MaxQueueClock
     /\ \E d \in {SleepAfterTimeout, GetTimeout} : AdvanceTime(d)

SpecQueue == Init /\ [][NextQueue]_vars

\* C34: the number of requests handled at the same time never exceeds
\* max_concurrent_requests
C34_ConcurrencyLimit == active_requests <= max_concurrent_requests

\* C35: no request is left in the queue while no processing loop is
\* running or about to run: whenever the queue holds a request, some
\* _process_queue task has not ended
C35_NoRequestStranded ==
  queue # <<>> => \E i \in DOMAIN procs : procs[i].pc # "done"

\* The start of the processing loop: two add_request calls racing with the
\* loop's start and exit, the clock moving on once when the event loop is idle
NextQueueStart ==
  \/ /\ Len(accepted) < MaxStartRequests
     /\ \E user_input \in {"a", "b"} : add_request("blueprint", user_input)
  \/ process_enter
  \/ process_step
  \/ get_step
  \/ \E i \in DOMAIN procs : QueueTimerFire(i)
  \/ handle_request_start
  \/ \E h \in DOMAIN handlers : \E ok \in BOOLEAN : handle_request_end(h, ok)
  \/ /\ ready = <<>>
     /\ clockSteps < MaxStartClock
     /\ \E d \in {SleepAfterTimeout, GetTimeout} : AdvanceTime(d)

SpecQueueStart == Init /\ [][NextQueueStart]_vars

\* a _process_queue task that has entered its loop and not left it
LoopRunning(i) == procs[i].pc \notin {"created", "done"}

\* C36: at most one processing loop is active at any time, and
\* is_processing is true exactly while that loop is running
C36_OneProcessingLoop ==
  /\ Cardinality({i \in DOMAIN procs : LoopRunning(i)}) <= 1
  /\ is_processing <=> \E i \in DOMAIN procs : LoopRunning(i)

\* two add_request calls have each created a task before either ran: the
\* first runs the loop, the second has returned at the guard
C36_Witness ==
  \E i, j \in DOMAIN procs : i < j /\ LoopRunning(i) /\ procs[j].pc = "done"

\* One client that sends its next request when the event loop is idle and
\* its earlier requests have been answered; each generation succeeds or
\* fails; the clock moves on by a timeout or up to the next timer
NextRate ==
  \/ /\ Len(accepted) < MaxRateRequests
     /\ ready = <<>>
     /\ queue = <<>>
     /\ \A h \in DOMAIN handlers : handlers[h].pc = "done"
     /\ add_request("blueprint", "a")
  \/ process_enter
  \/ process_step
  \/ get_step
  \/ \E i \in DOMAIN procs : QueueTimerFire(i)
  \/ handle_request_start
  \/ \E h \in DOMAIN handlers : \E ok \in BOOLEAN : handle_request_end(h, ok)
  \/ /\ ready = <<>>
     /\ clockSteps < MaxRateClock
     /\ \/ AdvanceTime(GetTimeout)
        \/ \E i \in DOMAIN procs :
             procs[i].wake # None /\ procs[i].wake > now /\ AdvanceTime(procs[i].wake - now)

SpecRate == Init /\ [][NextRate]_vars

\* C37: within the last 60 seconds the processing loop has handed at most
\* requests_per_minute requests to handlers, whatever their outcome
C37_RateLimit ==
  Cardinality({k \in DOMAIN handled : handled[k].time > now - RateWindow})
    <= requests_per_minute

====
